---- MODULE Spec2Model ----
(***************************************************************************)
(* A model of the container registry: the filesystem-backed blob store     *)
(* (internal/storage, internal/registry), the typed error model            *)
(* (internal/errors) and the handlers of main.go, for one repository name  *)
(* N.  The on-disk tree B/N is the variable fs: a function from the names  *)
(* of the directories that exist under B/N to their files, each a function *)
(* from file name to content (a sequence of bytes).  issued is the set of  *)
(* session ids handed out, resp the outcome of the last response, call the *)
(* handler invocation the server's handler chain is running, reqs the      *)
(* position of each request that is in progress, one file operation at a   *)
(* time, held the content of the files that were unlinked while a request  *)
(* had them open, and received the number of requests the server took.     *)
(***************************************************************************)
EXTENDS Integers, Sequences, FiniteSets, TLC

VARIABLES fs, issued, resp, call, reqs, held, received

vars == <<fs, issued, resp, call, reqs, held, received>>

-----------------------------------------------------------------------------
(* Bounds of the model. *)

\* number of session ids uuid.New() can hand out
NumSessions == 2
\* number of different manifests clients push
NumManifests == 2
\* longest run of '{' bytes that follows a body's first bytes
MaxPad == 1
\* bytes of the sniff buffer of CreateLayer (8192 in the code)
SniffSize == 3
\* most bytes of a body that arrive in a read of their own, ahead of the rest
MaxSplit == 1

-----------------------------------------------------------------------------
(* Bytes, readers, digests. *)

\* the byte '{'
Brace == 123

\* the bytes '}', '\n' and ':'
RBrace == 125
Newline == 10
Colon == 58

\* the gzip magic number the sniffing looks for (0x1f 0x8b 0x08)
GzipMagic == <<31, 139, 8>>

RECURSIVE Pad(_)
Pad(n) == IF n = 0 THEN <<>> ELSE <<Brace>> \o Pad(n - 1)

\* the contents clients upload: "{"-runs (not an archive) and gzip-headed
\* contents
Contents == {Pad(n) : n \in 0..MaxPad} \cup {GzipMagic \o Pad(n) : n \in 0..(MaxPad - 1)}

\* An io.Reader (a request body) is the sequence of the byte strings its
\* Read calls deliver, each into a buffer large enough for it; the empty
\* sequence is a reader at EOF.  Bytes is everything the reader delivers
RECURSIVE Bytes(_)
Bytes(r) == IF r = <<>> THEN <<>> ELSE Head(r) \o Bytes(Tail(r))

\* the reader that delivers b in one read
Whole(b) == IF b = <<>> THEN <<>> ELSE <<b>>

\* the readers that deliver b: in one read, or its first k bytes
\* (k <= MaxSplit) in a read of their own
Streams(b) ==
    {Whole(b)}
    \cup {<<SubSeq(b, 1, k), SubSeq(b, k + 1, Len(b))>> :
            k \in {j \in 1..MaxSplit : j < Len(b)}}

\* r.Read(buffer) with a buffer of size bytes: the bytes it returns, never
\* more than one delivery, and the reader that is left
Read(r, size) ==
    IF r = <<>> THEN [data |-> <<>>, rest |-> <<>>]
    ELSE IF Len(Head(r)) <= size THEN [data |-> Head(r), rest |-> Tail(r)]
    ELSE [data |-> SubSeq(Head(r), 1, size),
          rest |-> <<SubSeq(Head(r), size + 1, Len(Head(r)))>> \o Tail(r)]

\* request bodies of the upload requests
Bodies == UNION {Streams(b) : b \in Contents}

\* hex rendering of a byte string; stands for the %x of a hash that has no
\* collisions: distinct contents give distinct strings
RECURSIVE Hex(_)
Hex(b) == IF b = <<>> THEN "" ELSE ToString(Head(b)) \o "." \o Hex(Tail(b))

\* the digest of a content: "sha256:" followed by the hex of its hash
Sha256(b) == "sha256:" \o Hex(b)

\* the digest strings clients name in requests
Digests == {Sha256(Pad(MaxPad)), Sha256(GzipMagic)}

\* what a client may send as a digest: a well-formed one, none, or garbage
DigestInputs == Digests \cup {"", "sha256:zz"}

SessionIds == {"uuid-" \o ToString(i) : i \in 1..NumSessions}

\* a manifest, as the Manifest structure holds it, is one of 1..NumManifests;
\* its JSON text is '{', the manifest, '}'.  json.Encoder writes that text and
\* a newline
Manifests == 1..NumManifests

Encode(m) == <<Brace, m, RBrace, Newline>>

\* json.Decoder.Decode into a Manifest: the first JSON value of the text;
\* what follows it is not looked at.  A text that is no JSON object fails
Decode(b) ==
    IF Len(b) >= 3 /\ b[1] = Brace /\ b[2] \in Manifests /\ b[3] = RBrace
    THEN [ok |-> TRUE, m |-> b[2]]
    ELSE [ok |-> FALSE, m |-> 0]

\* the decoder has what it needs of text b: a whole JSON value, or a byte
\* that no JSON text of a manifest has at its place
Decided(b) ==
    \/ Decode(b).ok
    \/ Len(b) >= 1 /\ b[1] # Brace
    \/ Len(b) >= 2 /\ b[2] \notin Manifests
    \/ Len(b) >= 3 /\ b[3] # RBrace

\* the bytes json.Decoder.Decode reads from reader r, having read got: it
\* reads one delivery after the other into its buffer until the value is
\* whole, the text wrong or the reader at EOF, and reads no further
RECURSIVE DecoderRead(_, _)
DecoderRead(r, got) ==
    IF r = <<>> \/ Decided(got) THEN got
    ELSE DecoderRead(Tail(r), got \o Head(r))

\* manifest bodies clients send: the text followed by a newline, delivered
\* in one read or with the newline in a read of its own, the text without
\* the newline, and a text that does not decode
ValidManifestBodies ==
    {Whole(Encode(m)) : m \in Manifests}
    \cup {<<<<Brace, m, RBrace>>, <<Newline>>>> : m \in Manifests}
    \cup {Whole(<<Brace, m, RBrace>>) : m \in Manifests}

ManifestBodies == ValidManifestBodies \cup {Whole(Pad(1))}

\* the bytes of the text "sha256:<hex of the hash of b>", as the tag file
\* holds it: every such text has the same length, whatever b is.  string(...)
\* of the bytes read from a tag file is the digest string when they are such
\* a text, the text of the bytes otherwise
RECURSIVE Zeros(_)
Zeros(n) == IF n <= 0 THEN <<>> ELSE <<0>> \o Zeros(n - 1)

RECURSIVE StripZeros(_)
StripZeros(b) ==
    IF b # <<>> /\ b[Len(b)] = 0 THEN StripZeros(SubSeq(b, 1, Len(b) - 1)) ELSE b

DigestText(b) == <<Colon>> \o b \o Zeros(Len(Encode(1)) - Len(b))

StringOf(t) ==
    IF Len(t) = 1 + Len(Encode(1)) /\ Head(t) = Colon
    THEN Sha256(StripZeros(Tail(t)))
    ELSE IF t = <<>> THEN "" ELSE "raw:" \o Hex(t)

\* the digests of what the decoder reads of the manifest bodies
ManifestDigests == {Sha256(DecoderRead(b, <<>>)) : b \in ValidManifestBodies}

\* digest.Parse: nil error exactly for a well-formed digest string
\* a digest.Parse that accepts any text
DigestParseOk_Any(q) == TRUE

DigestParseOk(q) == q \in Digests \cup ManifestDigests

\* tag names of the model
Tags == {"v1", "v2"}

\* const baseTagDir: the directory B/N/tags
baseTagDir == "tags"

\* filepath.Join(baseTagDir, tag): the path of the tag file of tag, below B/N
TagPath(tag) == baseTagDir \o "/" \o tag

\* strings the router accepts in the {reference} position of the upload
\* routes: grammar.Reference matches a uuid and also name:tag, which a digest
\* string "sha256:<hex>" is
References == SessionIds \cup Digests

-----------------------------------------------------------------------------
(* HTTP status codes used by the handlers and the error model. *)

StatusOK == 200
StatusCreated == 201
StatusAccepted == 202
StatusBadRequest == 400
StatusNotFound == 404
StatusMethodNotAllowed == 405
StatusPreconditionFailed == 412
StatusRequestedRangeNotSatisfiable == 416
StatusInternalServerError == 500

-----------------------------------------------------------------------------
-----------------------------------------------------------------------------
(* The filesystem under B/N (os, io/ioutil as the storage code uses them).  *)
(* The directories of fs are B/N/<reference>, B/N/<digest>, B/N/tags and,   *)
(* when an upload named the reference tags/<tag>, B/N/tags/<tag>.           *)

\* a directory that exists and holds no file
EmptyDir == [n \in {} |-> <<>>]

\* B/N/dir is a directory
IsDir(f, dir) == dir \in DOMAIN f

\* os.Stat of the file B/N/dir/name returns no error
StatFile(f, dir, name) == dir \in DOMAIN f /\ name \in DOMAIN f[dir]

\* B/N/ref is a regular file: below B/N only tag files are
IsTagFile(f, ref) == \E tag \in Tags : ref = TagPath(tag) /\ StatFile(f, baseTagDir, tag)

\* os.Stat(B/N/ref) returns no error
Stat(f, ref) == IsDir(f, ref) \/ IsTagFile(f, ref)

\* the directories below B/N/dir
SubDirs(f, dir) ==
    IF dir = baseTagDir THEN {tag \in Tags : IsDir(f, TagPath(tag))} ELSE {}

\* the names ioutil.ReadDir(B/N/dir) lists
Entries(f, dir) == DOMAIN f[dir] \cup SubDirs(f, dir)

\* os.Mkdir(B/N/ref): one mkdir call, which makes the directory when nothing
\* is at the path and its parent is there, and fails otherwise; the parent
\* of the path of a tag is B/N/tags
Mkdir(f, ref) ==
    IF Stat(f, ref) \/ ((\E tag \in Tags : ref = TagPath(tag)) /\ ~IsDir(f, baseTagDir))
    THEN f
    ELSE [r \in DOMAIN f \cup {ref} |-> IF r \in DOMAIN f THEN f[r] ELSE EmptyDir]

\* os.MkdirAll(B/N/ref) has a parent to make before it makes the directory
MkdirAllParent(f, ref) ==
    ~Stat(f, ref) /\ (\E tag \in Tags : ref = TagPath(tag)) /\ ~IsDir(f, baseTagDir)

\* os.MkdirAll(B/N/ref) up to its first mkdir call: nothing when os.Stat finds
\* the path, a directory or a regular file; else the parent when it is not
\* there, and the directory itself when it is
MkdirAllFirst(f, ref) ==
    IF Stat(f, ref) THEN f
    ELSE IF MkdirAllParent(f, ref) THEN Mkdir(f, baseTagDir)
    ELSE Mkdir(f, ref)

\* os.MkdirAll: creates the directory and its parents unless they exist; it
\* fails, creating nothing, when the path is that of a regular file
MkdirAll(f, ref) ==
    IF MkdirAllParent(f, ref) THEN Mkdir(MkdirAllFirst(f, ref), ref)
    ELSE MkdirAllFirst(f, ref)

\* os.Create(B/N/ref/name) returns no error: the directory is there and the
\* name is not that of a directory
CanCreate(f, ref, name) == IsDir(f, ref) /\ name \notin SubDirs(f, ref)

\* os.Create followed by writing content: the file is created or truncated
Create(f, ref, name, content) ==
    [f EXCEPT ![ref] =
        [n \in DOMAIN f[ref] \cup {name} |-> IF n = name THEN content ELSE f[ref][n]]]

\* os.RemoveAll of a directory: the directory and everything below it
RemoveAll(f, ref) ==
    [r \in DOMAIN f \ ({ref} \cup {TagPath(tag) : tag \in SubDirs(f, ref)}) |-> f[r]]

\* os.Remove on a directory: succeeds only when it is empty
Remove(f, ref) ==
    IF IsDir(f, ref) /\ Entries(f, ref) = {} THEN RemoveAll(f, ref) ELSE f

\* os.Remove / os.RemoveAll of the file B/N/dir/name
RemoveFile(f, dir, name) ==
    [f EXCEPT ![dir] = [n \in DOMAIN f[dir] \ {name} |-> f[dir][n]]]

\* os.Rename(B/N/old/name, B/N/new/name): the file leaves old and replaces
\* whatever new holds under the same name
Rename(f, old, name, new) ==
    LET content == f[old][name]
        g == [f EXCEPT ![old] = [n \in DOMAIN f[old] \ {name} |-> f[old][n]]]
    IN Create(g, new, name, content)

\* ioutil.ReadDir sorts its entries by file name
FileRank(n) ==
    CASE n = "layer.json" -> 1
      [] n = "layer.tar.gz" -> 2
      [] n = "manifest.json" -> 3
      [] n = "v1" -> 4
      [] n = "v2" -> 5
      [] OTHER -> 6

\* the first of a non-empty set of entries of ioutil.ReadDir
FirstEntry(names) == CHOOSE n \in names : \A m \in names : FileRank(n) <= FileRank(m)

\* a write that appends to the file whatever the offset of the descriptor
WriteAt_Append(old, pos, piece) == old \o piece

\* file.Write through a descriptor at offset pos of a file that holds old:
\* the bytes go to pos.., over what is there; a file that was truncated
\* below pos is filled with zero bytes up to pos
WriteAt(old, pos, piece) ==
    LET base == IF Len(old) >= pos THEN SubSeq(old, 1, pos)
                ELSE old \o Zeros(pos - Len(old))
    IN base \o piece \o SubSeq(old, pos + Len(piece) + 1, Len(old))

-----------------------------------------------------------------------------
(* Errors (internal/errors). *)

\* the nil error
NilErr == [nil |-> TRUE, typed |-> FALSE, status |-> 0, code |-> "",
           message |-> "", detail |-> "", cause |-> ""]

\* an error that is no *errors.Error: cause "ENOENT" is an *os.PathError for a
\* missing path, cause "other" any other error (fmt.Errorf, a failed write)
PlainErr(cause) == [nil |-> FALSE, typed |-> FALSE, status |-> 0, code |-> "",
                    message |-> "", detail |-> "", cause |-> cause]

\* a WrapOption is the fields it assigns (sets) and the values it gives them
WithStatusCode(sc) ==
    [sets |-> {"status"}, status |-> sc, code |-> "", message |-> "", detail |-> ""]

WithDetail(detail) ==
    [sets |-> {"detail"}, status |-> 0, code |-> "", message |-> "", detail |-> detail]

WithCodeUnknown ==
    [sets |-> {"status", "code", "message"}, detail |-> "",
     status |-> StatusInternalServerError, code |-> "UNKNOWN", message |-> "unknown error"]

WithCodeUnsupported ==
    [sets |-> {"status", "code", "message"}, detail |-> "",
     status |-> StatusMethodNotAllowed, code |-> "UNSUPPORTED",
     message |-> "The operation is unsupported."]

WithCodeDigestInvalid ==
    [sets |-> {"status", "code", "message"}, detail |-> "",
     status |-> StatusBadRequest, code |-> "DIGEST_INVALID",
     message |-> "provided digest did not match uploaded content"]

WithCodeManifestUnknown ==
    [sets |-> {"status", "code", "message"}, detail |-> "",
     status |-> StatusNotFound, code |-> "MANIFEST_UNKNOWN", message |-> "manifest unknown"]

WithCodeManifestInvalid ==
    [sets |-> {"status", "code", "message"}, detail |-> "",
     status |-> StatusBadRequest, code |-> "MANIFEST_INVALID", message |-> "manifest invalid"]

WithCodeTagInvalid ==
    [sets |-> {"status", "code", "message"}, detail |-> "",
     status |-> StatusBadRequest, code |-> "TAG_INVALID",
     message |-> "manifest tag did not match URI"]

WithCodeBlobUnknown ==
    [sets |-> {"status", "code", "message"}, detail |-> "",
     status |-> StatusNotFound, code |-> "BLOB_UNKNOWN",
     message |-> "blob unknown to registry"]

WithCodeBlobUploadUnknown ==
    [sets |-> {"status", "code", "message"}, detail |-> "",
     status |-> StatusRequestedRangeNotSatisfiable, code |-> "BLOB_UPLOAD_UNKNOWN",
     message |-> "blob upload unknown to registry"]

\* one WrapOption applied to an Error: each field the option assigns takes the
\* option's value, the others stay
ApplyOption(e, o) ==
    [e EXCEPT !.status = IF "status" \in o.sets THEN o.status ELSE @,
              !.code = IF "code" \in o.sets THEN o.code ELSE @,
              !.message = IF "message" \in o.sets THEN o.message ELSE @,
              !.detail = IF "detail" \in o.sets THEN o.detail ELSE @]

\* a Wrap that runs its options from the last to the first
RECURSIVE ApplyOptions_Reversed(_, _)
ApplyOptions_Reversed(e, opts) ==
    IF opts = <<>> THEN e
    ELSE ApplyOptions_Reversed(ApplyOption(e, opts[Len(opts)]),
                               SubSeq(opts, 1, Len(opts) - 1))

RECURSIVE ApplyOptions(_, _)
ApplyOptions(e, opts) ==
    IF opts = <<>> THEN e ELSE ApplyOptions(ApplyOption(e, Head(opts)), Tail(opts))

\* errors.Wrap: an *Error around err, initialised UNKNOWN/500, then the
\* options in order.  cause keeps what err is: "", "ENOENT", "other", or
\* "typed" when err is itself an *Error
Wrap(err, opts) ==
    ApplyOptions(
        ApplyOption([nil |-> FALSE, typed |-> TRUE, status |-> 0, code |-> "",
                     message |-> "", detail |-> "",
                     cause |-> IF err.typed THEN "typed" ELSE err.cause],
                    WithCodeUnknown),
        opts)

\* os.IsNotExist(errors.Unwrap(err)) of main.go 683, with the errors package
\* of the standard library.  errors.Unwrap(nil) is nil.  *Error has no Unwrap
\* method (part_003 63-113), so errors.Unwrap of an *Error is nil too,
\* whatever its Err field holds, and so is that of an error of fmt.Errorf
\* without %w.  An *os.PathError and an *os.SyscallError unwrap to their
\* errno, which os.IsNotExist reports when it is ENOENT
IsNotExistUnwrap(err) == ~err.nil /\ ~err.typed /\ err.cause = "ENOENT"

-----------------------------------------------------------------------------
(* Path and content helpers (internal/registry). *)

\* filetype.IsArchive on the sniff buffer, for the bytes the model sends: the
\* gzip matcher, buf[0] = 0x1f, buf[1] = 0x8b, buf[2] = 0x08.  The buffer is
\* zeroed where the read did not fill it
IsArchive(buf) == Len(buf) >= Len(GzipMagic) /\ SubSeq(buf, 1, Len(GzipMagic)) = GzipMagic

detectExt(buf) == IF IsArchive(buf) THEN ".tar.gz" ELSE ".json"

\* the error of an os call on a path below B/N/ref that cannot be walked:
\* ENOENT when B/N/ref is not there, ENOTDIR when it is a regular file
PathErr(f, ref) == IF IsTagFile(f, ref) THEN PlainErr("other") ELSE PlainErr("ENOENT")

\* the error of os.Create of a file in B/N/ref: that of the path when the
\* directory is not there, EISDIR when the name is that of a directory
CreateErr(f, ref) == IF IsDir(f, ref) THEN PlainErr("other") ELSE PathErr(f, ref)

\* a CreateLayer that copies only what the stream has left after the sniff
CreateLayer_DropSniffed(f, body, ref) ==
    LET rd == Read(body, SniffSize)
        name == "layer" \o detectExt(rd.data)
    IN IF ~CanCreate(f, ref, name) THEN [fs |-> f, size |-> 0, err |-> CreateErr(f, ref)]
       ELSE [fs |-> Create(f, ref, name, Bytes(rd.rest)),
             size |-> Len(Bytes(rd.rest)),
             err |-> NilErr]

\* CreateLayer: one r.Read into the sniff buffer, os.Create of dir/layer<ext>
\* for the extension sniffed from what that read delivered, then io.Copy of
\* those bytes followed by the rest of the stream
CreateLayer(f, body, ref) ==
    LET rd == Read(body, SniffSize)
        name == "layer" \o detectExt(rd.data)
    IN IF ~CanCreate(f, ref, name) THEN [fs |-> f, size |-> 0, err |-> CreateErr(f, ref)]
       ELSE [fs |-> Create(f, ref, name, rd.data \o Bytes(rd.rest)),
             size |-> Len(rd.data \o Bytes(rd.rest)),
             err |-> NilErr]

\* the size os.FileInfo reports for an entry that is a directory
DirectorySize == 4096

\* PickupFileinfo: the first entry of the directory listing
PickupFileinfo(f, dir) ==
    IF ~IsDir(f, dir)
    THEN [err |-> PathErr(f, dir), name |-> "", size |-> 0]
    ELSE IF Entries(f, dir) = {}
    THEN [err |-> PlainErr("other"), name |-> "", size |-> 0]
    ELSE LET first == FirstEntry(Entries(f, dir))
         IN [err |-> NilErr, name |-> first,
             size |-> IF first \in DOMAIN f[dir] THEN Len(f[dir][first])
                      ELSE DirectorySize]

\* PredictDockerContentType: the media type predicted from a file name
PredictDockerContentType(filename) ==
    IF filename \in {"layer.json", "manifest.json"}
    THEN "application/vnd.docker.distribution.manifest.v2+json"
    ELSE "application/vnd.docker.image.rootfs.diff.tar.gzip"

-----------------------------------------------------------------------------
(* The storage engine (internal/storage, type Local), each function run     *)
(* from its first line to its return with no other request in between.      *)

PutBlobByReference(f, ref, body) == CreateLayer(MkdirAll(f, ref), body, ref)

\* an EnsurePutBlobBySession that, once the file is moved, removes every
\* directory but that of the digest
EnsurePutBlobBySession_SweepSessions(f, sessionID, digest) ==
    LET g == MkdirAll(f, digest)
        fi == PickupFileinfo(g, sessionID)
    IN IF ~fi.err.nil THEN [fs |-> g, err |-> fi.err]
       ELSE [fs |-> [r \in {digest} |-> Rename(g, sessionID, fi.name, digest)[digest]],
             err |-> NilErr]

EnsurePutBlobBySession(f, sessionID, digest) ==
    LET g == MkdirAll(f, digest)
        fi == PickupFileinfo(g, sessionID)
    IN IF ~fi.err.nil THEN [fs |-> g, err |-> fi.err]
       ELSE [fs |-> Remove(Rename(g, sessionID, fi.name, digest), sessionID),
             err |-> NilErr]

\* CheckBlobByReference (CheckBlobByDigest in storage.go): the metadata of
\* the file of a blob or session directory; a missing directory is the stat
\* error wrapped with status 404
CheckBlobByReference(f, ref) ==
    IF ~Stat(f, ref)
    THEN [err |-> Wrap(PlainErr("ENOENT"), <<WithStatusCode(StatusNotFound)>>),
          name |-> "", size |-> 0]
    ELSE PickupFileinfo(f, ref)

\* a FindBlobByImage that opens the last entry of the directory listing
\* instead of the first
FindBlobByImage_LastEntry(f, digest) ==
    IF ~Stat(f, digest)
    THEN [err |-> Wrap(PlainErr("ENOENT"), <<WithCodeBlobUnknown>>),
          name |-> "", content |-> <<>>]
    ELSE IF DOMAIN f[digest] = {}
    THEN [err |-> PlainErr("other"), name |-> "", content |-> <<>>]
    ELSE LET last == CHOOSE n \in DOMAIN f[digest] :
                        \A m \in DOMAIN f[digest] : FileRank(m) <= FileRank(n)
         IN [err |-> NilErr, name |-> last, content |-> f[digest][last]]

FindBlobByImage(f, digest) ==
    IF ~Stat(f, digest)
    THEN [err |-> Wrap(PlainErr("ENOENT"), <<WithCodeBlobUnknown>>),
          name |-> "", content |-> <<>>]
    ELSE LET fi == PickupFileinfo(f, digest)
         IN IF ~fi.err.nil THEN [err |-> fi.err, name |-> "", content |-> <<>>]
            ELSE [err |-> NilErr, name |-> fi.name, content |-> f[digest][fi.name]]

\* a DeleteBlobByImage that removes the whole repository directory
DeleteBlobByImage_Everything(f, digest) ==
    IF ~Stat(f, digest)
    THEN [fs |-> f, err |-> Wrap(PlainErr("ENOENT"), <<WithCodeBlobUnknown>>)]
    ELSE [fs |-> [r \in {} |-> EmptyDir], err |-> NilErr]

DeleteBlobByImage(f, digest) ==
    IF ~Stat(f, digest)
    THEN [fs |-> f, err |-> Wrap(PlainErr("ENOENT"), <<WithCodeBlobUnknown>>)]
    ELSE [fs |-> RemoveAll(f, digest), err |-> NilErr]

\* a CreateManifest that writes the tag file before it decodes the body
CreateManifest_TagFirst(f, body, tag) ==
    LET read == DecoderRead(body, <<>>)
        d == Decode(read)
        sha256sum == Sha256(read)
        g == Create(MkdirAll(f, baseTagDir), baseTagDir, tag, DigestText(read))
    IN IF ~d.ok
       THEN [fs |-> g, sha256sum |-> "",
             err |-> Wrap(PlainErr("other"), <<WithCodeManifestInvalid>>)]
       ELSE [fs |-> Create(MkdirAll(g, sha256sum), sha256sum, "manifest.json", Encode(d.m)),
             sha256sum |-> sha256sum, err |-> NilErr]

\* CreateManifest: decodes the body through a TeeReader into the hash, so
\* that the digest is that of the bytes the decoder read; writes the digest
\* to the tag file and the re-encoded manifest to B/N/<digest>/manifest.json.
\* An os.Create that fails is answered TAG_INVALID
CreateManifest(f, body, tag) ==
    LET read == DecoderRead(body, <<>>)
        d == Decode(read)
        sha256sum == Sha256(read)
        g == MkdirAll(f, baseTagDir)
    IN IF ~d.ok
       THEN [fs |-> f, sha256sum |-> "",
             err |-> Wrap(PlainErr("other"), <<WithCodeManifestInvalid>>)]
       ELSE IF ~CanCreate(g, baseTagDir, tag)
       THEN [fs |-> g, sha256sum |-> "",
             err |-> Wrap(CreateErr(g, baseTagDir), <<WithCodeTagInvalid>>)]
       ELSE LET h == MkdirAll(Create(g, baseTagDir, tag, DigestText(read)), sha256sum)
            IN IF ~CanCreate(h, sha256sum, "manifest.json")
               THEN [fs |-> h, sha256sum |-> "",
                     err |-> Wrap(CreateErr(h, sha256sum), <<WithCodeTagInvalid>>)]
               ELSE [fs |-> Create(h, sha256sum, "manifest.json", Encode(d.m)),
                     sha256sum |-> sha256sum, err |-> NilErr]

\* the manifest file B/N/<digest>/manifest.json, decoded
ReadManifest(f, digest) ==
    IF ~StatFile(f, digest, "manifest.json")
    THEN [err |-> Wrap(PlainErr("ENOENT"), <<WithCodeManifestUnknown>>), m |-> 0]
    ELSE LET d == Decode(f[digest]["manifest.json"])
         IN IF d.ok THEN [err |-> NilErr, m |-> d.m]
            ELSE [err |-> PlainErr("other"), m |-> 0]

\* a FindManifestByImage that does not look for a tag file
FindManifestByImage_NoTagFile(f, ref) == ReadManifest(f, ref)

\* FindManifestByImage: ref is resolved through B/N/tags/<ref> when os.Stat
\* finds it (ioutil.ReadFile fails on a directory), then
\* B/N/<ref>/manifest.json is decoded
FindManifestByImage(f, ref) ==
    IF IsDir(f, TagPath(ref))
    THEN [err |-> Wrap(PlainErr("other"), <<>>), m |-> 0]
    ELSE ReadManifest(f, IF StatFile(f, baseTagDir, ref)
                         THEN StringOf(f[baseTagDir][ref]) ELSE ref)

\* a DeleteManifestByImage that removes the directory of the tag files
DeleteManifestByImage_AllTags(f, tag) ==
    IF ~StatFile(f, baseTagDir, tag)
    THEN [fs |-> f,
          err |-> Wrap(PlainErr("ENOENT"), <<WithStatusCode(StatusBadRequest)>>)]
    ELSE [fs |-> RemoveAll(f, baseTagDir), err |-> NilErr]

\* DeleteManifestByImage: os.Stat of B/N/tags/<tag>/manifest.json is ENOENT
\* when nothing is there by that name and ENOTDIR, which os.IsNotExist does
\* not report, when B/N/tags/<tag> is a tag file; then os.RemoveAll of
\* B/N/tags/<tag>
DeleteManifestByImage(f, tag) ==
    IF StatFile(f, baseTagDir, tag)
    THEN [fs |-> RemoveFile(f, baseTagDir, tag), err |-> NilErr]
    ELSE IF StatFile(f, TagPath(tag), "manifest.json")
    THEN [fs |-> RemoveAll(f, TagPath(tag)), err |-> NilErr]
    ELSE [fs |-> f,
          err |-> Wrap(PlainErr("ENOENT"), <<WithStatusCode(StatusBadRequest)>>)]

\* Local.ListTags: the names of the entries of B/N/tags
ListTagsByImage(f) ==
    IF ~IsDir(f, baseTagDir)
    THEN [err |-> Wrap(PlainErr("ENOENT"), <<WithStatusCode(StatusNotFound)>>),
          tags |-> {}]
    ELSE [err |-> NilErr, tags |-> Entries(f, baseTagDir)]

-----------------------------------------------------------------------------
(* Responses and the Handler adapter (handler.go, internal/errors ServeJSON). *)

\* newResponse: the Response wrapper the handlers write to, with what goes
\* out through it.  status is the recorded status code, committed whether
\* WriteHeader was called, forwarded the status codes passed on to the
\* WriteHeader of the wrapped writer, wire the status code the wrapped writer
\* sent to the client, 0 while it has sent no header; a header "" is one that
\* was not set; code, message and detail are those of the JSON error
\* envelope, body the bytes streamed, listName and listTags the "name" and
\* "tags" of a tag list
NewResponse ==
    [status |-> StatusOK, committed |-> FALSE, forwarded |-> <<>>, wire |-> 0,
     code |-> "", message |-> "", detail |-> "",
     location |-> "", range |-> "", uploadUUID |-> "", acceptRanges |-> "",
     contentLength |-> "", contentDigest |-> "", contentType |-> "", body |-> <<>>,
     listName |-> "", listTags |-> {}, apiVersion |-> "", noSniff |-> ""]

\* a WriteHeader that records and forwards every call
WriteHeader_NoLatch(w, sc) ==
    [w EXCEPT !.committed = TRUE, !.status = sc, !.forwarded = Append(@, sc),
              !.wire = IF @ = 0 THEN sc ELSE @]

\* Response.WriteHeader: only the first call counts.  The wrapped writer
\* sends the status it is passed unless it has sent its header already
WriteHeader(w, sc) ==
    IF w.committed THEN w
    ELSE [w EXCEPT !.committed = TRUE, !.status = sc, !.forwarded = Append(@, sc),
                   !.wire = IF @ = 0 THEN sc ELSE @]

\* w.Write(b): Response has no Write of its own, so the call is that of the
\* wrapped writer, which sends its header first, as 200, when it has sent
\* none; the wrapper records nothing of it
Write(w, b) ==
    [w EXCEPT !.body = @ \o b, !.wire = IF @ = 0 THEN StatusOK ELSE @]

\* the status code the client receives: a header that was never written goes
\* out as 200 when the handler chain returns
WireStatus(w) == IF w.wire = 0 THEN StatusOK ELSE w.wire

\* a SetHeaderServerAdapter that leaves X-Content-Type-Options out
SetHeaderServerAdapter_ApiVersionOnly(w) ==
    [w EXCEPT !.apiVersion = "registry/2.0"]

\* SetHeaderServerAdapter: the two headers set on the writer before the next
\* handler runs (Docker-Distribution-Api-Version, X-Content-Type-Options)
SetHeaderServerAdapter(w) ==
    [w EXCEPT !.apiVersion = "registry/2.0", !.noSniff = "nosniff"]

\* ServerApply(rs, AccessLogServerAdapter(), SetHeaderServerAdapter()): the
\* writer the routed handler is given.  AccessLogServerAdapter, the outermost,
\* wraps the connection's writer with newResponse, SetHeaderServerAdapter
\* sets its headers on that wrapper, then the router runs the handler
ServerApply == SetHeaderServerAdapter(NewResponse)

\* errors.ServeJSON: nothing for a nil error; the envelope of a typed error,
\* or of Wrap(err) otherwise
ServeJSON(w, err) ==
    IF err.nil THEN w
    ELSE LET e == IF err.typed THEN err ELSE Wrap(err, <<>>)
         IN [WriteHeader([w EXCEPT !.contentType = "application/json; charset=utf-8"],
                         e.status)
             EXCEPT !.code = e.code, !.message = e.message, !.detail = e.detail]

\* a Handler.ServeHTTP that drops the error the handler returned
ServeHTTP_DropError(h) == [fs |-> h.fs, resp |-> h.w]

\* Handler.ServeHTTP on what a handler function did (h.w) and returned
\* (h.err); a response whose header was never written goes out as 200, the
\* status the wrapper starts with
ServeHTTP(h) ==
    [fs |-> h.fs, resp |-> IF h.err.nil THEN h.w ELSE ServeJSON(h.w, h.err)]

-----------------------------------------------------------------------------
(* The blob handlers (main.go).  Each operator is the handler function run  *)
(* through Handler.ServeHTTP: it gives the tree afterwards and the response.*)

\* the repository name of the requests
Name == "lib/x"

\* the Content-Range header of a PATCH: absent, or "<start>-<end>/<total>",
\* with the "bytes " prefix of RFC 7233 when bytesPrefix
NoRange == [present |-> FALSE, bytesPrefix |-> FALSE, start |-> 0, end |-> 0]

RangeOf(start, end) == [present |-> TRUE, bytesPrefix |-> FALSE, start |-> start, end |-> end]

\* main.go 666-669: idx = strings.Index(contentRange, "bytes "), and when
\* found contentRange[idx+1:] is kept.  The result is what then stands in
\* front of "<start>-<end>"
StripBytesPrefix(cr) == IF cr.bytesPrefix THEN "ytes " ELSE ""

\* fmt.Sscanf(contentRange, "%d-%d", &start, &end) succeeds when the text
\* begins with the two numbers
SscanfOk(lead) == lead = ""

\* the answer Handler.ServeHTTP gives for the error a handler returned
\* before it wrote anything
Failed(err) == ServeJSON(NewResponse, err)

\* what Handler.ServeHTTP leaves of a handler that wrote w and returned nil
Served(f, w) == ServeHTTP([fs |-> f, w |-> w, err |-> NilErr])

\* what Handler.ServeHTTP leaves of a handler that returned err
Refused(f, err) == ServeHTTP([fs |-> f, w |-> NewResponse, err |-> err])

\* main.go 599-602: the answer of a POST that issued sessionID
SessionIssued(sessionID) ==
    WriteHeader([NewResponse EXCEPT
                    !.location = "/v2/" \o Name \o "/blobs/uploads/" \o sessionID],
                StatusAccepted)

\* main.go 618-620 and 750-752: the answer of a push that stored a body at dq
BlobCreated(dq) ==
    WriteHeader([NewResponse EXCEPT !.location = "/v2/" \o Name \o "/blobs/" \o dq],
                StatusCreated)

PushBlobPost(f, octet, dq, body, sessionID) ==
    IF ~octet THEN Served(f, SessionIssued(sessionID))
    ELSE IF ~DigestParseOk(dq)
    THEN Refused(f, Wrap(PlainErr("other"), <<WithCodeDigestInvalid>>))
    ELSE LET p == PutBlobByReference(f, dq, body)
         IN IF ~p.err.nil THEN Refused(p.fs, p.err) ELSE Served(p.fs, BlobCreated(dq))

\* the headers both PATCH modes end with
PatchAccepted(w, sessionID) ==
    WriteHeader([w EXCEPT !.location = "/v2/" \o Name \o "/blobs/uploads/" \o sessionID,
                          !.uploadUUID = sessionID],
                StatusAccepted)

\* main.go 644-650: the answer of a full upload that wrote size bytes
FullAccepted(sessionID, size) ==
    PatchAccepted([NewResponse EXCEPT !.range = "0-" \o ToString(size)], sessionID)

\* main.go 699-700, 716-720: the answer of an upload with Content-Range from
\* offset 0 that wrote size bytes
RangeAccepted(sessionID, size) ==
    PatchAccepted([NewResponse EXCEPT !.acceptRanges = "bytes",
                                      !.range = "0-" \o ToString(size)],
                  sessionID)

\* main.go 701-714: the session directory is opened with os.Open, read-only,
\* and the body copied to it: with no byte to write io.Copy returns 0, with
\* any byte the write fails
PatchAppend(f, sessionID, start, body) ==
    IF ~Stat(f, sessionID)
    THEN [fs |-> f, w |-> NewResponse, err |-> PlainErr("ENOENT")]
    ELSE IF Bytes(body) = <<>>
    THEN [fs |-> f, err |-> NilErr,
          w |-> PatchAccepted(
                   [NewResponse EXCEPT !.acceptRanges = "bytes",
                        !.range = ToString(start) \o "-" \o ToString(start)],
                   sessionID)]
    ELSE [fs |-> f, w |-> NewResponse, err |-> PlainErr("other")]

\* main.go 678-693: what the handler returns once CheckBlobByReference gave
\* info, when it returns there: the error of the lookup, nil included, unless
\* it says that nothing is there; then BLOB_UPLOAD_UNKNOWN unless the range
\* starts at the size found and has the length of the body.  proceed says
\* that the handler goes on to store the body
RangeCheck(info, cr, bodyLen) ==
    LET fsize == IF info.err.nil THEN info.size ELSE 0
    IN IF ~IsNotExistUnwrap(info.err) THEN [proceed |-> FALSE, err |-> info.err]
       ELSE IF cr.start # fsize \/ cr.end - cr.start + 1 # bodyLen
       THEN [proceed |-> FALSE, err |-> Wrap(info.err, <<WithCodeBlobUploadUnknown>>)]
       ELSE [proceed |-> TRUE, err |-> NilErr]

PushBlobPatch(f, sessionID, cr, hasContentLength, body) ==
    IF ~cr.present \/ ~hasContentLength
    THEN LET p == PutBlobByReference(f, sessionID, body)
         IN IF ~p.err.nil THEN Refused(p.fs, p.err)
            ELSE Served(p.fs, FullAccepted(sessionID, p.size))
    ELSE IF ~SscanfOk(StripBytesPrefix(cr))
    THEN Refused(f, Wrap(PlainErr("other"), <<WithCodeBlobUploadUnknown>>))
    ELSE LET check == RangeCheck(CheckBlobByReference(f, sessionID), cr, Len(Bytes(body)))
         IN IF ~check.proceed THEN Refused(f, check.err)
            ELSE IF cr.start = 0
            THEN LET p == PutBlobByReference(f, sessionID, body)
                 IN IF ~p.err.nil THEN Refused(p.fs, p.err)
                    ELSE Served(p.fs, RangeAccepted(sessionID, p.size))
            ELSE ServeHTTP(PatchAppend(f, sessionID, cr.start, body))

PushBlobPut(f, sessionID, dq, octet, body) ==
    IF ~DigestParseOk(dq)
    THEN Refused(f, Wrap(PlainErr("other"), <<WithCodeDigestInvalid>>))
    ELSE IF octet
    THEN LET p == PutBlobByReference(f, dq, body)
         IN IF ~p.err.nil THEN Refused(p.fs, p.err) ELSE Served(p.fs, BlobCreated(dq))
    ELSE LET e == EnsurePutBlobBySession(f, sessionID, dq)
         IN IF ~e.err.nil THEN Refused(e.fs, e.err)
            ELSE Served(e.fs, WriteHeader(NewResponse, StatusCreated))

\* main.go 786-790: the answer of a HEAD that found the file name of size
\* bytes
BlobFound(name, dq, size) ==
    WriteHeader([NewResponse EXCEPT !.contentType = PredictDockerContentType(name),
                                    !.contentDigest = dq,
                                    !.contentLength = ToString(size)],
                StatusAccepted)

PushBlobHead(f, dq) ==
    IF ~DigestParseOk(dq)
    THEN Refused(f, Wrap(PlainErr("other"), <<WithCodeDigestInvalid>>))
    ELSE LET fi == CheckBlobByReference(f, dq)
         IN IF ~fi.err.nil THEN Refused(f, fi.err)
            ELSE Served(f, BlobFound(fi.name, dq, fi.size))

\* main.go 564-566: the answer of a GET that copied content from the file
\* name; the header is written, as 200, with the first byte
BlobServed(name, content) ==
    LET w == [NewResponse EXCEPT !.contentType = PredictDockerContentType(name)]
    IN IF content = <<>> THEN w ELSE Write(w, content)

PullingBlobs(f, dq) ==
    IF ~DigestParseOk(dq)
    THEN Refused(f, Wrap(PlainErr("other"), <<WithCodeDigestInvalid>>))
    ELSE LET b == FindBlobByImage(f, dq)
         IN IF ~b.err.nil THEN Refused(f, b.err)
            ELSE Served(f, BlobServed(b.name, b.content))

DeleteBlob(f, digest) ==
    LET d == DeleteBlobByImage(f, digest)
    IN IF ~d.err.nil THEN Refused(d.fs, d.err)
       ELSE Served(d.fs, WriteHeader(NewResponse, StatusAccepted))

-----------------------------------------------------------------------------
(* The manifest and tag handlers (main.go). *)

\* main.go 808-812: the answer of a manifest PUT that stored sha256sum at tag
ManifestCreated(tag, sha256sum) ==
    WriteHeader([NewResponse EXCEPT
                    !.contentDigest = sha256sum,
                    !.location = "/v2/" \o Name \o "/manifests/" \o tag],
                StatusCreated)

PushManifestPut(f, tag, body) ==
    LET c == CreateManifest(f, body, tag)
    IN IF ~c.err.nil THEN Refused(c.fs, c.err)
       ELSE Served(c.fs, ManifestCreated(tag, c.sha256sum))

\* main.go 583-585: the answer of a GET that found manifest m
ManifestServed(m) ==
    Write([NewResponse EXCEPT !.contentType = PredictDockerContentType("manifest.json")],
          Encode(m))

PullingManifests(f, ref) ==
    LET m == FindManifestByImage(f, ref)
    IN IF ~m.err.nil THEN Refused(f, m.err) ELSE Served(f, ManifestServed(m.m))

\* a DeleteManifest that answers an unknown tag with MANIFEST_UNKNOWN
DeleteManifest_NotFound(f, tag) ==
    LET d == DeleteManifestByImage(f, tag)
    IN IF ~d.err.nil THEN Refused(d.fs, Wrap(d.err, <<WithCodeManifestUnknown>>))
       ELSE Served(d.fs, WriteHeader(NewResponse, StatusAccepted))

DeleteManifest(f, tag) ==
    LET d == DeleteManifestByImage(f, tag)
    IN IF ~d.err.nil THEN Refused(d.fs, d.err)
       ELSE Served(d.fs, WriteHeader(NewResponse, StatusAccepted))

\* main.go 868-873: the answer of a tag list, the JSON of name and tags
TagsListed(tags) == Write([NewResponse EXCEPT !.listName = Name, !.listTags = tags], <<>>)

ListTags(f) ==
    LET l == ListTagsByImage(f)
    IN IF ~l.err.nil THEN Refused(f, l.err) ELSE Served(f, TagsListed(l.tags))

\* DeterminingSupport, main.go 535-541: the handler of GET /v2/ writes the
\* body {} and returns nil
DeterminingSupport(f) ==
    Served(f, Write([NewResponse EXCEPT !.contentType = "application/json"],
                    <<Brace, RBrace>>))

\* unsupportedHandler: the handler of PUT and DELETE /v2/N/manifests/<digest>
UnsupportedHandler(f) == Refused(f, Wrap(PlainErr("other"), <<WithCodeUnsupported>>))

-----------------------------------------------------------------------------
(* The requests clients send. *)

\* largest offset a Content-Range of the model names
MaxOffset == 2

Ranges ==
    {[present |-> TRUE, bytesPrefix |-> p, start |-> s, end |-> e] :
        p \in BOOLEAN, s \in 0..MaxOffset, e \in 0..MaxOffset}

\* the Content-Range and Content-Length headers of a PATCH, as a pair
\* <<Content-Range, Content-Length present>>.  net/http reads exactly
\* Content-Length bytes of body, so a present Content-Length is that of the
\* body
PatchHeaders ==
    ({NoRange} \X BOOLEAN)
    \cup ({cr \in Ranges : cr.start <= cr.end} \X {TRUE})
    \cup {<<RangeOf(0, 0), FALSE>>}

\* a digest the blob routes accept (grammar.Digest) that digest.Parse
\* rejects: the algorithm is not one it knows
UnparsableDigest == "md5:d41d8cd98f00b204e9800998ecf8427e"

RoutedDigests == Digests \cup {UnparsableDigest}

\* a request the chain has passed to its handler, which has done nothing yet:
\* w is the writer, codes the status codes WriteHeader was called with, err
\* the error the handler has in hand, opts the options of its Wrap, returned
\* whether the handler has returned and Handler.ServeHTTP has run
IdleCall == [w |-> ServerApply, codes |-> <<>>, err |-> NilErr, opts |-> <<>>,
             returned |-> FALSE]

\* requests the server may be serving at once, each in a goroutine of its own
NumUploadProcs == 2

UploadProcs == 1..NumUploadProcs

\* requests the server receives in one run beyond one for each of those it
\* may be serving at once
MaxFollowing == 1

\* the descriptor of a request that has no file open, and that of a file
\* that was unlinked since it was opened
NoFd == <<"", "">>
Orphan == <<"", "unlinked">>

\* a slot no request is using: pc is the position in the handler, op the
\* handler, ref the {reference} or {tag} of the route, digest the digest of
\* the route, of the query or of the manifest, cr the Content-Range, body
\* what the io.Copy of an upload has still to write (the request body once
\* the sniff buffer is read from it), name the file picked or created, fd and
\* pos the open file and the offset in it, out the bytes copied to the
\* response, m the manifest decoded.  path is the directory that
\* ioutil.ReadDir is listing or os.RemoveAll removing, dirfd whether the
\* request has the directory open ("open"; "unlinked" once the directory it
\* opened was removed), names the entries it listed and has still to lstat
\* or to unlink, infos the name and size of the entries ioutil.ReadDir has
\* lstat'ed, err the error ioutil.ReadDir returned ("" for none).  keep is
\* set for a client that sends one request: the slot then keeps the request
\* and its answer, status and code
IdleReq == [pc |-> "idle", op |-> "", ref |-> "", digest |-> "", cr |-> NoRange,
            body |-> <<>>, name |-> "", fd |-> NoFd, pos |-> 0, out |-> <<>>,
            m |-> 0, path |-> "", dirfd |-> "", names |-> {}, infos |-> {},
            err |-> "", keep |-> FALSE, status |-> 0, code |-> ""]

-----------------------------------------------------------------------------
(* The state machine: every request runs in a slot of reqs, one file        *)
(* operation of its handler at a time, with the operations of the other     *)
(* requests in between.  resp keeps the status and the error code of the    *)
(* last response.                                                            *)

Outcome(r) == [status |-> r.status, code |-> r.code]

\* the server after main has started it, able to serve the requests of
\* procs at once: nothing is stored and no request has come
Started(procs) ==
    /\ fs = [r \in {} |-> EmptyDir]
    /\ issued = {}
    /\ resp = Outcome(NewResponse)
    /\ call = IdleCall
    /\ reqs = [p \in procs |-> IdleReq]
    /\ held = [k \in {} |-> <<>>]
    /\ received = 0

Init == Started(UploadProcs)

\* the files of directory dir and of the directories below it, as
\* <<directory, name>>
FilesBelow(f, dir) ==
    UNION {{<<d, n>> : n \in DOMAIN f[d]} :
            d \in ({dir} \cup {TagPath(tag) : tag \in SubDirs(f, dir)}) \cap DOMAIN f}

\* the requests whose descriptor is on file
Holders(rq, file) == {p \in DOMAIN rq : rq[p].fd = file}

\* the files victims of tree f are unlinked: a request that has one of them
\* open keeps the file, which no path names any more
Unlink(rq, h, f, victims) ==
    LET open == {v \in victims : Holders(rq, v) # {}}
        keys == {Holders(rq, v) : v \in open}
    IN [reqs |-> [p \in DOMAIN rq |->
                    IF rq[p].fd \in open THEN [rq[p] EXCEPT !.fd = Orphan] ELSE rq[p]],
        held |-> [k \in DOMAIN h \cup keys |->
                    IF k \in DOMAIN h THEN h[k]
                    ELSE LET v == CHOOSE v \in open : Holders(rq, v) = k
                         IN f[v[1]][v[2]]]]

\* directories that were removed leave the requests that have them open with
\* a descriptor no path names: f is the tree after the removal
Detach(rq, f) ==
    [p \in DOMAIN rq |->
        IF rq[p].dirfd = "open" /\ ~IsDir(f, rq[p].path)
        THEN [rq[p] EXCEPT !.dirfd = "unlinked"]
        ELSE rq[p]]

\* the file request p holds unlinked
HeldBy(h, p) == CHOOSE k \in DOMAIN h : p \in k

\* file.Close of request p: an unlinked file is gone with its last descriptor
Release(h, r, p) ==
    IF r.fd # Orphan THEN h
    ELSE LET mine == HeldBy(h, p)
             keys == {k \in (DOMAIN h \ {mine}) \cup {mine \ {p}} : k # {}}
         IN [k \in keys |-> IF k \in DOMAIN h THEN h[k] ELSE h[mine]]

\* what the file behind the descriptor of request p holds
FdContent(f, h, r, p) ==
    IF r.fd = Orphan THEN h[HeldBy(h, p)] ELSE f[r.fd[1]][r.fd[2]]

\* file.Write of piece through the descriptor of request p, at its offset
FdWrite(f, h, r, p, piece) ==
    IF r.fd = Orphan
    THEN [fs |-> f, held |-> [h EXCEPT ![HeldBy(h, p)] = WriteAt(@, r.pos, piece)]]
    ELSE [fs |-> Create(f, r.fd[1], r.fd[2],
                        WriteAt(f[r.fd[1]][r.fd[2]], r.pos, piece)),
          held |-> h]

\* the slot of a request that was answered with what writer w holds
Finish(r, w) ==
    IF r.keep
    THEN [r EXCEPT !.pc = "done", !.fd = NoFd, !.status = w.status, !.code = w.code]
    ELSE IdleReq

\* request p goes on as next, the tree being f, the other requests rq and the
\* unlinked files h
Goes(p, f, rq, h, next) ==
    /\ fs' = f
    /\ reqs' = [rq EXCEPT ![p] = next]
    /\ held' = h
    /\ received' = IF reqs[p].pc = "idle" THEN received + 1 ELSE received
    /\ UNCHANGED <<issued, resp, call>>

\* the handler of request p returns and Handler.ServeHTTP has answered with
\* what writer w holds; the file the request has open is closed
Ends(p, f, rq, h, w) ==
    /\ fs' = f
    /\ reqs' = [rq EXCEPT ![p] = Finish(rq[p], w)]
    /\ held' = Release(h, rq[p], p)
    /\ resp' = Outcome(w)
    /\ received' = IF reqs[p].pc = "idle" THEN received + 1 ELSE received
    /\ UNCHANGED <<issued, call>>

\* slot p is free for a request, and the server receives one more
Free(p) == reqs[p].pc = "idle" /\ received < Cardinality(DOMAIN reqs) + MaxFollowing

\* the request of a slot that starts on handler op
NewReq(op, ref, digest, keep) ==
    [IdleReq EXCEPT !.op = op, !.ref = ref, !.digest = digest, !.keep = keep]

-----------------------------------------------------------------------------
(* Uploads: PushBlobPost, PushBlobPatch, PushBlobPut through                *)
(* PutBlobByReference and CreateLayer, or EnsurePutBlobBySession.           *)

\* the answer of the handler op once PutBlobByReference returned size
Stored(r, size) ==
    CASE r.op = "PushBlobPatch" ->
            IF r.cr.present THEN RangeAccepted(r.ref, size) ELSE FullAccepted(r.ref, size)
      [] OTHER -> BlobCreated(r.digest)

\* POST /v2/N/blobs/uploads/ that is no upload: uuid.New() gives an id never
\* given before (main.go 596-603)
RecvPushBlobPostSession(p) ==
    /\ Free(p)
    /\ \E sessionID \in SessionIds \ issued :
        /\ issued' = issued \cup {sessionID}
        /\ resp' = Outcome(PushBlobPost(fs, FALSE, "", <<>>, sessionID).resp)
    /\ received' = received + 1
    /\ UNCHANGED <<fs, reqs, held, call>>

\* POST /v2/N/blobs/uploads/?digest=<dq> with an octet-stream body, up to the
\* os.MkdirAll of PutBlobByReference (main.go 605-616, storage.go 230-231)
RecvPushBlobPost(p, digests, bodies) ==
    /\ Free(p)
    /\ \E dq \in digests, body \in bodies :
        IF ~DigestParseOk(dq)
        THEN Ends(p, fs, reqs, held, PushBlobPost(fs, TRUE, dq, body, "").resp)
        ELSE Goes(p, MkdirAll(fs, dq), reqs, held,
                  [NewReq("PushBlobPost", dq, dq, FALSE) EXCEPT
                        !.pc = "create", !.body = body])

\* PATCH /v2/N/blobs/uploads/<reference>, up to its first file operation: the
\* first mkdir of the os.MkdirAll of PutBlobByReference for a full upload
\* (main.go 633-641, storage.go 230-231), the os.Stat of CheckBlobByDigest
\* for an upload with Content-Range (main.go 654-679, storage.go 259-264)
RecvPushBlobPatch(p, refs, headers, bodies, keep) ==
    /\ Free(p)
    /\ \E ref \in refs, h \in headers, body \in bodies :
        LET r == [NewReq("PushBlobPatch", ref, "", keep) EXCEPT !.cr = h[1], !.body = body]
        IN IF ~h[1].present \/ ~h[2]
           THEN Goes(p, MkdirAllFirst(fs, ref), reqs, held,
                     [r EXCEPT !.pc = IF MkdirAllParent(fs, ref) THEN "mkdirLast"
                                      ELSE "create",
                               !.cr = NoRange])
           ELSE IF ~SscanfOk(StripBytesPrefix(h[1]))
           THEN Ends(p, fs, [reqs EXCEPT ![p] = r], held,
                     PushBlobPatch(fs, ref, h[1], h[2], body).resp)
           ELSE IF Stat(fs, ref)
           THEN Goes(p, fs, reqs, held, [r EXCEPT !.pc = "rdOpen", !.path = ref])
           ELSE Ends(p, fs, [reqs EXCEPT ![p] = r], held,
                     PushBlobPatch(fs, ref, h[1], h[2], body).resp)

\* ioutil.ReadDir(path) of PickupFileinfo, its os.Open: the request has the
\* directory open, or the error is returned: ENOENT when nothing is at the
\* path, which a file makes ENOTDIR at the first read (part_002 59-62)
ReadDirOpen(p) ==
    /\ reqs[p].pc = "rdOpen"
    /\ LET r == reqs[p]
       IN IF IsDir(fs, r.path)
          THEN Goes(p, fs, reqs, held, [r EXCEPT !.pc = "rdNames", !.dirfd = "open"])
          ELSE Goes(p, fs, reqs, held,
                    [r EXCEPT !.pc = "picked", !.err = PathErr(fs, r.path).cause])

\* ioutil.ReadDir, one getdents of f.Readdir(-1) through the descriptor: the
\* names the directory holds that were not listed yet; a call that finds
\* none ends the listing.  On a directory that was removed since it was
\* opened the call fails with ENOENT, which is the error returned
ReadDirNames(p) ==
    /\ reqs[p].pc = "rdNames"
    /\ LET r == reqs[p]
           new == IF r.dirfd = "open" THEN Entries(fs, r.path) \ r.names ELSE {}
       IN IF r.dirfd = "unlinked"
          THEN Goes(p, fs, reqs, held,
                    [r EXCEPT !.pc = "picked", !.dirfd = "", !.names = {}, !.err = "ENOENT"])
          ELSE IF new # {}
          THEN Goes(p, fs, reqs, held, [r EXCEPT !.names = @ \cup new])
          ELSE Goes(p, fs, reqs, held,
                    [r EXCEPT !.pc = IF r.names = {} THEN "picked" ELSE "rdStat",
                              !.dirfd = ""])

\* ioutil.ReadDir, one lstat(path/name) of f.Readdir(-1), in the order the
\* directory gave the names: the size the file has by now; a name that is
\* gone is left out, and a path that is a file by now is the error returned
ReadDirLstat(p) ==
    /\ reqs[p].pc = "rdStat"
    /\ \E name \in reqs[p].names :
        LET r == reqs[p]
            next == [r EXCEPT !.names = @ \ {name},
                              !.pc = IF r.names = {name} THEN "picked" ELSE @]
        IN IF IsTagFile(fs, r.path)
           THEN Goes(p, fs, reqs, held,
                     [r EXCEPT !.pc = "picked", !.names = {}, !.infos = {}, !.err = "other"])
           ELSE IF StatFile(fs, r.path, name)
           THEN Goes(p, fs, reqs, held,
                     [next EXCEPT !.infos = @ \cup {<<name, Len(fs[r.path][name])>>}])
           ELSE IF IsDir(fs, r.path) /\ name \in SubDirs(fs, r.path)
           THEN Goes(p, fs, reqs, held,
                     [next EXCEPT !.infos = @ \cup {<<name, DirectorySize>>}])
           ELSE Goes(p, fs, reqs, held, next)

\* what PickupFileinfo returns once ioutil.ReadDir has returned to request
\* r: its error, or the first entry of the list sorted by name, or the error
\* of fmt.Errorf for an empty list (part_002 59-66)
Picked(r) ==
    IF r.err # "" THEN [err |-> PlainErr(r.err), name |-> "", size |-> 0]
    ELSE IF r.infos = {} THEN [err |-> PlainErr("other"), name |-> "", size |-> 0]
    ELSE LET first == FirstEntry({i[1] : i \in r.infos})
         IN [err |-> NilErr, name |-> first,
             size |-> (CHOOSE i \in r.infos : i[1] = first)[2]]

\* request r with nothing left of the ioutil.ReadDir it ran
Returned(r) == [r EXCEPT !.infos = {}, !.err = ""]

\* what the handler makes of the result of CheckBlobByDigest (storage.go
\* 265, main.go 679-693)
PatchReadDir(p) ==
    /\ reqs[p].pc = "picked"
    /\ reqs[p].op = "PushBlobPatch"
    /\ LET r == reqs[p]
           check == RangeCheck(Picked(r), r.cr, Len(Bytes(r.body)))
       IN IF check.proceed
          THEN Goes(p, fs, reqs, held, [Returned(r) EXCEPT !.pc = "mkdir"])
          ELSE Ends(p, fs, [reqs EXCEPT ![p] = Returned(r)], held, Failed(check.err))

\* os.MkdirAll(path) of PutBlobByReference up to its first mkdir, for an
\* upload with Content-Range that passed the check; its start is 0 (main.go
\* 694-695, storage.go 230-231)
PatchMkdir(p) ==
    /\ reqs[p].pc = "mkdir"
    /\ Goes(p, MkdirAllFirst(fs, reqs[p].ref), reqs, held,
            [reqs[p] EXCEPT !.pc = IF MkdirAllParent(fs, reqs[p].ref) THEN "mkdirLast"
                                   ELSE "create"])

\* os.MkdirAll(path) of PutBlobByReference once it has made the parent: the
\* mkdir of the path itself.  Its error is dropped with that of os.MkdirAll
\* (storage.go 231)
MkdirLast(p) ==
    /\ reqs[p].pc = "mkdirLast"
    /\ Goes(p, Mkdir(fs, reqs[p].ref), reqs, held, [reqs[p] EXCEPT !.pc = "create"])

\* PUT /v2/N/blobs/uploads/<reference>?digest=<dq>, up to its first file
\* operation: the os.MkdirAll of PutBlobByReference with an octet-stream body
\* (main.go 732-749), that of EnsurePutBlobBySession without (main.go 756,
\* storage.go 239-240)
RecvPushBlobPut(p, refs, digests, octets, bodies, keep) ==
    /\ Free(p)
    /\ \E ref \in refs, dq \in digests, octet \in octets :
        \E body \in IF octet THEN bodies ELSE {<<>>} :
            IF ~DigestParseOk(dq)
            THEN Ends(p, fs, [reqs EXCEPT ![p] = NewReq("PushBlobPut", ref, dq, keep)], held,
                      PushBlobPut(fs, ref, dq, octet, body).resp)
            ELSE IF octet
            THEN Goes(p, MkdirAll(fs, dq), reqs, held,
                      [NewReq("PushBlobPut", dq, dq, keep) EXCEPT
                            !.pc = "create", !.body = body])
            ELSE Goes(p, MkdirAll(fs, dq), reqs, held,
                      [NewReq("PushBlobPut", ref, dq, keep) EXCEPT
                            !.pc = "rdOpen", !.path = ref])

\* CreateLayer up to os.Create: one read of the body into the sniff buffer,
\* then dir/layer<ext> is created or truncated; what io.Copy has to write is
\* the buffer's bytes and the rest of the body (part_002 34-45)
LayerCreate(p) ==
    /\ reqs[p].pc = "create"
    /\ LET r == reqs[p]
           rd == Read(r.body, SniffSize)
           name == "layer" \o detectExt(rd.data)
           pending == Whole(rd.data) \o rd.rest
       IN IF ~CanCreate(fs, r.ref, name)
          THEN Ends(p, fs, reqs, held, Failed(CreateErr(fs, r.ref)))
          ELSE IF pending = <<>>
          THEN Ends(p, Create(fs, r.ref, name, <<>>), reqs, held, Stored(r, 0))
          ELSE Goes(p, Create(fs, r.ref, name, <<>>), reqs, held,
                    [r EXCEPT !.pc = "copy", !.name = name, !.fd = <<r.ref, name>>,
                              !.pos = 0, !.body = pending])

\* io.Copy of CreateLayer: one read of what is left, written through the
\* descriptor at its offset; at EOF the handler answers (part_002 46)
LayerCopy(p) ==
    /\ reqs[p].pc = "copy"
    /\ LET r == reqs[p]
           piece == Head(r.body)
           w == FdWrite(fs, held, r, p, piece)
           next == [r EXCEPT !.pos = @ + Len(piece), !.body = Tail(@)]
       IN IF next.body = <<>>
          THEN Ends(p, w.fs, reqs, w.held, Stored(r, next.pos))
          ELSE Goes(p, w.fs, reqs, w.held, next)

\* the result of registry.PickupFileinfo(oldDir); its error is the answer
\* (storage.go 242-247)
FinPickup(p) ==
    /\ reqs[p].pc = "picked"
    /\ reqs[p].op = "PushBlobPut"
    /\ LET r == reqs[p]
           fi == Picked(r)
       IN IF fi.err.nil
          THEN Goes(p, fs, reqs, held, [Returned(r) EXCEPT !.pc = "rename", !.name = fi.name])
          ELSE Ends(p, fs, [reqs EXCEPT ![p] = Returned(r)], held, Failed(fi.err))

\* os.Rename(oldpath, newpath): it fails when the file or the directory it
\* goes to is gone; a file it replaces is unlinked, and the descriptors open
\* on the file follow it to its new path (storage.go 248-252)
FinRename(p) ==
    /\ reqs[p].pc = "rename"
    /\ LET r == reqs[p]
           u == Unlink(reqs, held, fs,
                       IF r.ref = r.digest \/ ~StatFile(fs, r.digest, r.name) THEN {}
                       ELSE {<<r.digest, r.name>>})
       IN IF StatFile(fs, r.ref, r.name) /\ IsDir(fs, r.digest)
          THEN Goes(p, Rename(fs, r.ref, r.name, r.digest),
                    [q \in DOMAIN reqs |->
                        IF u.reqs[q].fd = <<r.ref, r.name>>
                        THEN [u.reqs[q] EXCEPT !.fd = <<r.digest, r.name>>]
                        ELSE u.reqs[q]],
                    u.held, [r EXCEPT !.pc = "remove"])
          ELSE Ends(p, fs, reqs, held, Failed(PlainErr("ENOENT")))

\* os.Remove(oldDir), its error dropped, and the 201 answer (storage.go
\* 253-254, main.go 761-762)
FinRemove(p) ==
    /\ reqs[p].pc = "remove"
    /\ LET f == Remove(fs, reqs[p].ref)
       IN Ends(p, f, Detach(reqs, f), held, WriteHeader(NewResponse, StatusCreated))

-----------------------------------------------------------------------------
(* Blob reads and deletes: PushBlobHead, PullingBlobs, DeleteBlob.          *)

\* HEAD /v2/N/blobs/<digest>, up to the os.Stat of CheckBlobByDigest
\* (main.go 773-782, storage.go 259-264)
RecvPushBlobHead(p, digests) ==
    /\ Free(p)
    /\ \E dq \in digests :
        IF DigestParseOk(dq) /\ Stat(fs, dq)
        THEN Goes(p, fs, reqs, held, [NewReq("PushBlobHead", dq, dq, FALSE) EXCEPT
                                            !.pc = "rdOpen", !.path = dq])
        ELSE Ends(p, fs, reqs, held, PushBlobHead(fs, dq).resp)

\* the result of registry.PickupFileinfo in CheckBlobByDigest and the answer
\* (storage.go 265, main.go 783-790)
HeadReadDir(p) ==
    /\ reqs[p].pc = "picked"
    /\ reqs[p].op = "PushBlobHead"
    /\ LET fi == Picked(reqs[p])
       IN IF fi.err.nil
          THEN Ends(p, fs, reqs, held, BlobFound(fi.name, reqs[p].digest, fi.size))
          ELSE Ends(p, fs, reqs, held, Failed(fi.err))

\* GET /v2/N/blobs/<digest>, up to the os.Stat of FindBlobByImage (main.go
\* 549-558, storage.go 319-324)
RecvPullingBlobs(p, digests) ==
    /\ Free(p)
    /\ \E dq \in digests :
        IF DigestParseOk(dq) /\ Stat(fs, dq)
        THEN Goes(p, fs, reqs, held, [NewReq("PullingBlobs", dq, dq, FALSE) EXCEPT
                                            !.pc = "rdOpen", !.path = dq])
        ELSE Ends(p, fs, reqs, held, PullingBlobs(fs, dq).resp)

\* the result of registry.PickupFileinfo in FindBlobByImage (storage.go
\* 325-328)
GetReadDir(p) ==
    /\ reqs[p].pc = "picked"
    /\ reqs[p].op = "PullingBlobs"
    /\ LET r == reqs[p]
           fi == Picked(r)
       IN IF fi.err.nil
          THEN Goes(p, fs, reqs, held, [Returned(r) EXCEPT !.pc = "getOpen", !.name = fi.name])
          ELSE Ends(p, fs, reqs, held, Failed(fi.err))

\* os.Open of the file picked (storage.go 329-330, main.go 559-562)
GetOpen(p) ==
    /\ reqs[p].pc = "getOpen"
    /\ LET r == reqs[p]
       IN IF StatFile(fs, r.digest, r.name)
          THEN Goes(p, fs, reqs, held,
                    [r EXCEPT !.pc = "getRead", !.fd = <<r.digest, r.name>>, !.pos = 0])
          ELSE Ends(p, fs, reqs, held, Failed(PlainErr("ENOENT")))

\* io.Copy(w, f): one read of what the file holds from the offset on, copied
\* to the response; a read that finds nothing is EOF, and the handler
\* returns (main.go 564-566)
GetRead(p) ==
    /\ reqs[p].pc = "getRead"
    /\ LET r == reqs[p]
           content == FdContent(fs, held, r, p)
           data == SubSeq(content, r.pos + 1, Len(content))
       IN IF data = <<>>
          THEN Ends(p, fs, reqs, held, BlobServed(r.name, r.out))
          ELSE Goes(p, fs, reqs, held, [r EXCEPT !.pos = @ + Len(data), !.out = @ \o data])

\* DELETE /v2/N/blobs/<digest>, up to the os.Stat of DeleteBlobByImage
\* (main.go 841-845, storage.go 378-383)
RecvDeleteBlob(p, digests) ==
    /\ Free(p)
    /\ \E dq \in digests :
        IF Stat(fs, dq)
        THEN Goes(p, fs, reqs, held, [NewReq("DeleteBlob", dq, dq, FALSE) EXCEPT
                                            !.pc = "removeAll", !.path = dq])
        ELSE Ends(p, fs, reqs, held, DeleteBlob(fs, dq).resp)

\* os.RemoveAll(path) of DeleteBlobByImage and of DeleteManifestByImage, its
\* first call, Remove(path): a file is unlinked, an empty directory removed,
\* and with that, or with nothing at the path, os.RemoveAll returns nil and
\* the answer is 202; a directory that holds entries makes it go on
\* (storage.go 371 and 384, main.go 828-830 and 846-848)
DelRemoveAll(p) ==
    /\ reqs[p].pc = "removeAll"
    /\ LET r == reqs[p]
           accepted == WriteHeader(NewResponse, StatusAccepted)
       IN IF IsTagFile(fs, r.path)
          THEN LET u == Unlink(reqs, held, fs, {<<baseTagDir, r.ref>>})
               IN Ends(p, RemoveFile(fs, baseTagDir, r.ref), u.reqs, u.held, accepted)
          ELSE IF ~IsDir(fs, r.path)
          THEN Ends(p, fs, reqs, held, accepted)
          ELSE IF Entries(fs, r.path) = {}
          THEN LET f == Remove(fs, r.path)
               IN Ends(p, f, Detach(reqs, f), held, accepted)
          ELSE Goes(p, fs, reqs, held, [r EXCEPT !.pc = "rmUnlinkat"])

\* os.RemoveAll once Remove(path) has failed, one call a step: unlinkat of
\* the path, which unlinks a file; fstatat; the open of the directory.  With
\* nothing at the path each of them makes os.RemoveAll return nil, and the
\* answer is 202; a file found there after unlinkat makes it return the
\* error, and the answer is 500 UNKNOWN
RmOpenDir(p) ==
    /\ reqs[p].pc \in {"rmUnlinkat", "rmFstatat", "rmOpen"}
    /\ LET r == reqs[p]
           accepted == WriteHeader(NewResponse, StatusAccepted)
       IN IF r.pc = "rmUnlinkat" /\ IsTagFile(fs, r.path)
          THEN LET u == Unlink(reqs, held, fs, {<<baseTagDir, r.ref>>})
               IN Ends(p, RemoveFile(fs, baseTagDir, r.ref), u.reqs, u.held, accepted)
          ELSE IF IsTagFile(fs, r.path)
          THEN Ends(p, fs, reqs, held, Failed(PlainErr("other")))
          ELSE IF ~IsDir(fs, r.path)
          THEN Ends(p, fs, reqs, held, accepted)
          ELSE Goes(p, fs, reqs, held,
                    CASE r.pc = "rmUnlinkat" -> [r EXCEPT !.pc = "rmFstatat"]
                      [] r.pc = "rmFstatat" -> [r EXCEPT !.pc = "rmOpen"]
                      [] OTHER -> [r EXCEPT !.pc = "rmRead", !.dirfd = "open"])

\* os.RemoveAll, one getdents of file.Readdirnames through the descriptor:
\* the names the directory holds that were not listed yet; a call that finds
\* none ends the listing.  On a directory that was removed since it was
\* opened the call fails with ENOENT: os.RemoveAll returns nil then, and the
\* answer is 202
RmReadDir(p) ==
    /\ reqs[p].pc = "rmRead"
    /\ LET r == reqs[p]
           new == IF r.dirfd = "open" THEN DOMAIN fs[r.path] \ r.names ELSE {}
       IN IF r.dirfd = "unlinked"
          THEN Ends(p, fs, reqs, held, WriteHeader(NewResponse, StatusAccepted))
          ELSE IF new # {}
          THEN Goes(p, fs, reqs, held, [r EXCEPT !.names = @ \cup new])
          ELSE Goes(p, fs, reqs, held, [r EXCEPT !.pc = "rmUnlink"])

\* os.RemoveAll: one of the entries listed is unlinked, in the order the
\* directory gave them; an entry that is gone by now is passed over
RmUnlink(p) ==
    /\ reqs[p].pc = "rmUnlink"
    /\ \E name \in reqs[p].names :
        LET r == reqs[p]
            next == [r EXCEPT !.names = @ \ {name}]
        IN IF r.dirfd = "open" /\ StatFile(fs, r.path, name)
           THEN LET u == Unlink(reqs, held, fs, {<<r.path, name>>})
                IN Goes(p, RemoveFile(fs, r.path, name), u.reqs, u.held, next)
           ELSE Goes(p, fs, reqs, held, next)

\* os.RemoveAll: the directory itself is removed once the entries listed are
\* unlinked.  A directory that has an entry by now, one that another request
\* created meanwhile, is not removed: the error is returned as it is, and the
\* answer is 500 UNKNOWN.  With no directory at the path the result is nil
RmRmdir(p) ==
    /\ reqs[p].pc = "rmUnlink"
    /\ reqs[p].names = {}
    /\ LET r == reqs[p]
           accepted == WriteHeader(NewResponse, StatusAccepted)
       IN IF IsTagFile(fs, r.path) THEN Ends(p, fs, reqs, held, Failed(PlainErr("other")))
          ELSE IF ~IsDir(fs, r.path) THEN Ends(p, fs, reqs, held, accepted)
          ELSE IF Entries(fs, r.path) = {}
          THEN LET f == Remove(fs, r.path)
               IN Ends(p, f, Detach(reqs, f), held, accepted)
          ELSE Ends(p, fs, reqs, held, Failed(PlainErr("other")))

-----------------------------------------------------------------------------
(* Manifests and tags: PushManifestPut through CreateManifest,              *)
(* PullingManifests through FindManifestByImage, DeleteManifest, ListTags.  *)

\* PUT /v2/N/manifests/<tag>: the body is decoded through the TeeReader,
\* then os.MkdirAll of B/N/tags (main.go 801-804, storage.go 272-284)
RecvPushManifestPut(p, tags, bodies, keep) ==
    /\ Free(p)
    /\ \E tag \in tags, body \in bodies :
        LET read == DecoderRead(body, <<>>)
            r == [NewReq("PushManifestPut", tag, Sha256(read), keep) EXCEPT
                        !.m = Decode(read).m, !.body = Whole(DigestText(read))]
        IN IF ~Decode(read).ok
           THEN Ends(p, fs, [reqs EXCEPT ![p] = r], held, PushManifestPut(fs, tag, body).resp)
           ELSE Goes(p, MkdirAll(fs, baseTagDir), reqs, held, [r EXCEPT !.pc = "createTag"])

\* os.Create of the tag file: created or truncated; TAG_INVALID when it
\* cannot be (storage.go 286-293)
PutCreateTag(p) ==
    /\ reqs[p].pc = "createTag"
    /\ LET r == reqs[p]
       IN IF CanCreate(fs, baseTagDir, r.ref)
          THEN Goes(p, Create(fs, baseTagDir, r.ref, <<>>), reqs, held,
                    [r EXCEPT !.pc = "writeTag", !.fd = <<baseTagDir, r.ref>>, !.pos = 0])
          ELSE Ends(p, fs, reqs, held,
                    Failed(Wrap(CreateErr(fs, baseTagDir), <<WithCodeTagInvalid>>)))

\* tagFile.Write of the digest, which body holds as the bytes to write, and
\* tagFile.Close (storage.go 294-295)
PutWriteTag(p) ==
    /\ reqs[p].pc = "writeTag"
    /\ LET r == reqs[p]
           w == FdWrite(fs, held, r, p, Bytes(r.body))
       IN Goes(p, w.fs, reqs, Release(w.held, r, p),
               [r EXCEPT !.pc = "mkdirDigest", !.fd = NoFd, !.body = <<>>])

\* os.MkdirAll of B/N/<digest> (storage.go 297-298)
PutMkdirDigest(p) ==
    /\ reqs[p].pc = "mkdirDigest"
    /\ Goes(p, MkdirAll(fs, reqs[p].digest), reqs, held,
            [reqs[p] EXCEPT !.pc = "createManifest"])

\* os.Create of manifest.json: created or truncated; TAG_INVALID when it
\* cannot be (storage.go 300-307)
PutCreateManifest(p) ==
    /\ reqs[p].pc = "createManifest"
    /\ LET r == reqs[p]
       IN IF CanCreate(fs, r.digest, "manifest.json")
          THEN Goes(p, Create(fs, r.digest, "manifest.json", <<>>), reqs, held,
                    [r EXCEPT !.pc = "encode", !.fd = <<r.digest, "manifest.json">>,
                              !.pos = 0])
          ELSE Ends(p, fs, reqs, held,
                    Failed(Wrap(CreateErr(fs, r.digest), <<WithCodeTagInvalid>>)))

\* json.NewEncoder(manifestF).Encode and the 201 answer (storage.go 308-312,
\* main.go 805-812)
PutEncode(p) ==
    /\ reqs[p].pc = "encode"
    /\ LET r == reqs[p]
           w == FdWrite(fs, held, r, p, Encode(r.m))
       IN Ends(p, w.fs, reqs, w.held, ManifestCreated(r.ref, r.digest))

\* GET /v2/N/manifests/<reference>, up to the os.Stat of the tag file
\* (main.go 577-580, storage.go 335-336)
RecvPullingManifests(p, refs) ==
    /\ Free(p)
    /\ \E ref \in refs :
        Goes(p, fs, reqs, held,
             [NewReq("PullingManifests", ref, ref, FALSE) EXCEPT
                    !.pc = IF Stat(fs, TagPath(ref)) THEN "openTag" ELSE "statManifest"])

\* ioutil.ReadFile of the tag file, its os.Open; the error is wrapped: ENOENT
\* when the file is gone, and EISDIR, by the first read, when a directory is
\* at the path (storage.go 337-340)
GetOpenTag(p) ==
    /\ reqs[p].pc = "openTag"
    /\ LET r == reqs[p]
       IN IF StatFile(fs, baseTagDir, r.ref)
          THEN Goes(p, fs, reqs, held,
                    [r EXCEPT !.pc = "readTag", !.fd = <<baseTagDir, r.ref>>, !.pos = 0])
          ELSE Ends(p, fs, reqs, held,
                    Failed(Wrap(IF IsDir(fs, TagPath(r.ref)) THEN PlainErr("other")
                                ELSE PlainErr("ENOENT"), <<>>)))

\* ioutil.ReadFile of the tag file, one read through the descriptor of what
\* the file holds from the offset on, were it unlinked meanwhile; a read that
\* finds nothing is EOF: the file is closed and what was read is the digest
\* (storage.go 337-342)
GetReadTag(p) ==
    /\ reqs[p].pc = "readTag"
    /\ LET r == reqs[p]
           content == FdContent(fs, held, r, p)
           data == SubSeq(content, r.pos + 1, Len(content))
       IN IF data = <<>>
          THEN Goes(p, fs, reqs, Release(held, r, p),
                    [r EXCEPT !.pc = "statManifest", !.fd = NoFd, !.pos = 0, !.out = <<>>,
                              !.digest = StringOf(r.out)])
          ELSE Goes(p, fs, reqs, held, [r EXCEPT !.pos = @ + Len(data), !.out = @ \o data])

\* os.Stat of B/N/<ref>/manifest.json (storage.go 344-349)
GetStatManifest(p) ==
    /\ reqs[p].pc = "statManifest"
    /\ LET r == reqs[p]
       IN IF StatFile(fs, r.digest, "manifest.json")
          THEN Goes(p, fs, reqs, held, [r EXCEPT !.pc = "openManifest"])
          ELSE Ends(p, fs, reqs, held,
                    Failed(Wrap(PlainErr("ENOENT"), <<WithCodeManifestUnknown>>)))

\* os.Open of the manifest file (storage.go 350-354)
GetOpenManifest(p) ==
    /\ reqs[p].pc = "openManifest"
    /\ LET r == reqs[p]
       IN IF StatFile(fs, r.digest, "manifest.json")
          THEN Goes(p, fs, reqs, held,
                    [r EXCEPT !.pc = "decode", !.fd = <<r.digest, "manifest.json">>])
          ELSE Ends(p, fs, reqs, held, Failed(PlainErr("ENOENT")))

\* json.NewDecoder(f).Decode of what the file holds, and the answer
\* (storage.go 355-359, main.go 581-585)
GetDecode(p) ==
    /\ reqs[p].pc = "decode"
    /\ LET d == Decode(FdContent(fs, held, reqs[p], p))
       IN IF d.ok
          THEN Ends(p, fs, reqs, held, ManifestServed(d.m))
          ELSE Ends(p, fs, reqs, held, Failed(PlainErr("other")))

\* DELETE /v2/N/manifests/<tag>, up to the os.Stat of
\* B/N/tags/<tag>/manifest.json (main.go 823-827, storage.go 364-370); the
\* os.RemoveAll(tagDir) that follows is DelRemoveAll and the steps after it
RecvDeleteManifest(p, tags) ==
    /\ Free(p)
    /\ \E tag \in tags :
        IF StatFile(fs, baseTagDir, tag) \/ StatFile(fs, TagPath(tag), "manifest.json")
        THEN Goes(p, fs, reqs, held, [NewReq("DeleteManifest", tag, "", FALSE) EXCEPT
                                            !.pc = "removeAll", !.path = TagPath(tag)])
        ELSE Ends(p, fs, reqs, held, DeleteManifest(fs, tag).resp)

\* GET /v2/ (main.go 396, 535-541)
DoDeterminingSupport(p) ==
    /\ Free(p)
    /\ Ends(p, fs, reqs, held, DeterminingSupport(fs).resp)

\* GET /v2/N/tags/list, up to the ioutil.ReadDir of Local.ListTags (main.go
\* 859-864, storage.go 389-390)
RecvListTags(p) ==
    /\ Free(p)
    /\ Goes(p, fs, reqs, held,
            [NewReq("ListTags", baseTagDir, "", FALSE) EXCEPT
                    !.pc = "rdOpen", !.path = baseTagDir])

\* what ioutil.ReadDir returned to Local.ListTags, and the answer: the names
\* of the entries, the error wrapped with 404 when os.IsNotExist reports it,
\* as it is otherwise (storage.go 391-403, main.go 865-873)
ListReadDir(p) ==
    /\ reqs[p].pc = "picked"
    /\ reqs[p].op = "ListTags"
    /\ LET r == reqs[p]
       IN Ends(p, fs, reqs, held,
               CASE r.err = "" -> TagsListed({i[1] : i \in r.infos})
                 [] r.err = "ENOENT" ->
                        Failed(Wrap(PlainErr("ENOENT"), <<WithStatusCode(StatusNotFound)>>))
                 [] OTHER -> Failed(PlainErr(r.err)))

\* PUT and DELETE /v2/N/manifests/<digest> (main.go 385-388, 458-464, 484-490)
DoUnsupported(p) ==
    /\ Free(p)
    /\ Ends(p, fs, reqs, held, UnsupportedHandler(fs).resp)

-----------------------------------------------------------------------------
(* The blob requests, any two in progress at once. *)

\* the bodies and headers of the upload requests here: a body that is no
\* archive and a gzip-headed one, whole and with its first byte ahead; a whole
\* upload and uploads with Content-Range.  Their references are one session
\* and the digests
PushBodies == {Whole(Pad(MaxPad))} \cup Streams(GzipMagic)

PushHeaders ==
    {<<NoRange, TRUE>>, <<RangeOf(0, 0), TRUE>>, <<RangeOf(1, 1), TRUE>>,
     <<[RangeOf(0, 0) EXCEPT !.bytesPrefix = TRUE], TRUE>>}

Next ==
    \E p \in UploadProcs :
        \/ RecvPushBlobPostSession(p)
        \/ RecvPushBlobPost(p, DigestInputs, PushBodies)
        \/ RecvPushBlobPatch(p, {"uuid-1"} \cup Digests, PushHeaders, PushBodies, FALSE)
        \/ ReadDirOpen(p)
        \/ ReadDirNames(p)
        \/ ReadDirLstat(p)
        \/ PatchReadDir(p)
        \/ PatchMkdir(p)
        \/ RecvPushBlobPut(p, {"uuid-1"} \cup Digests, DigestInputs, BOOLEAN, PushBodies, FALSE)
        \/ LayerCreate(p)
        \/ LayerCopy(p)
        \/ FinPickup(p)
        \/ FinRename(p)
        \/ FinRemove(p)
        \/ RecvPushBlobHead(p, RoutedDigests)
        \/ HeadReadDir(p)
        \/ RecvPullingBlobs(p, RoutedDigests)
        \/ GetReadDir(p)
        \/ GetOpen(p)
        \/ GetRead(p)
        \/ RecvDeleteBlob(p, RoutedDigests)
        \/ DelRemoveAll(p)
        \/ RmOpenDir(p)
        \/ RmReadDir(p)
        \/ RmUnlink(p)
        \/ RmRmdir(p)
        \/ DoDeterminingSupport(p)

Spec == Init /\ [][Next]_vars

-----------------------------------------------------------------------------
(* The manifest and tag requests, any two in progress at once, with the     *)
(* blob requests that reach the directories they use.                       *)

\* references of upload requests here: the router's grammar.Reference also
\* accepts the word "tags" and the path of a tag file
TagStoreReferences == {baseTagDir, TagPath("v1")}

ManifestNext ==
    \E p \in UploadProcs :
        \/ RecvPushManifestPut(p, Tags, ManifestBodies, FALSE)
        \/ PutCreateTag(p)
        \/ PutWriteTag(p)
        \/ PutMkdirDigest(p)
        \/ PutCreateManifest(p)
        \/ PutEncode(p)
        \/ RecvPullingManifests(p, Tags \cup ManifestDigests)
        \/ GetOpenTag(p)
        \/ GetReadTag(p)
        \/ GetStatManifest(p)
        \/ GetOpenManifest(p)
        \/ GetDecode(p)
        \/ RecvDeleteManifest(p, Tags)
        \/ RecvListTags(p)
        \/ ReadDirOpen(p)
        \/ ReadDirNames(p)
        \/ ReadDirLstat(p)
        \/ ListReadDir(p)
        \/ DoUnsupported(p)
        \/ RecvPushBlobPatch(p, TagStoreReferences, {<<NoRange, TRUE>>},
                             {Whole(Pad(MaxPad)), Whole(GzipMagic)}, FALSE)
        \/ MkdirLast(p)
        \/ LayerCreate(p)
        \/ LayerCopy(p)
        \/ RecvDeleteBlob(p, ManifestDigests)
        \/ DelRemoveAll(p)
        \/ RmOpenDir(p)
        \/ RmReadDir(p)
        \/ RmUnlink(p)
        \/ RmRmdir(p)
        \/ DoDeterminingSupport(p)

ManifestSpec == Init /\ [][ManifestNext]_vars

-----------------------------------------------------------------------------
(* Two clients that each send one manifest PUT, in progress at once.        *)

ConcurrentPutNext ==
    \E p \in UploadProcs :
        \/ RecvPushManifestPut(p, Tags, ManifestBodies, TRUE)
        \/ PutCreateTag(p)
        \/ PutWriteTag(p)
        \/ PutMkdirDigest(p)
        \/ PutCreateManifest(p)
        \/ PutEncode(p)

ConcurrentPutSpec == Init /\ [][ConcurrentPutNext]_vars

-----------------------------------------------------------------------------
(* One request through the server's handler chain, step by step: the        *)
(* handler sets a header, calls WriteHeader, writes bytes of the body,      *)
(* fails, wraps its error, and returns to Handler.ServeHTTP.                 *)

\* most WriteHeader calls made on one writer
MaxCalls == 2
\* most options of one errors.Wrap
MaxOptions == 3

\* the handler calls w.Header().Set("Location", ...)
CallSetHeader ==
    /\ ~call.returned
    /\ call.w.location = ""
    /\ call' = [call EXCEPT !.w.location = "/v2/" \o Name \o "/blobs/uploads/"]
    /\ UNCHANGED <<fs, issued, resp, reqs, held, received>>

\* the handler calls w.WriteHeader(sc)
CallWriteHeader ==
    /\ ~call.returned
    /\ Len(call.codes) < MaxCalls
    /\ \E sc \in {StatusOK, StatusAccepted, StatusInternalServerError} :
        call' = [call EXCEPT !.w = WriteHeader(@, sc), !.codes = Append(@, sc)]
    /\ UNCHANGED <<fs, issued, resp, reqs, held, received>>

\* the handler writes bytes of the body, w.Write or io.Copy(w, f), as the
\* handlers of main.go 538, 565, 585 and 873 do
CallWrite ==
    /\ ~call.returned
    /\ call.w.body = <<>>
    /\ call' = [call EXCEPT !.w = Write(@, <<Brace>>)]
    /\ UNCHANGED <<fs, issued, resp, reqs, held, received>>

\* an operation of the handler fails with a plain error (fmt.Errorf, os)
CallFail ==
    /\ ~call.returned
    /\ call.err.nil
    /\ call' = [call EXCEPT !.err = PlainErr("other")]
    /\ UNCHANGED <<fs, issued, resp, reqs, held, received>>

\* the handler wraps its error, errors.Wrap(err, opts...): with no option, or
\* with one option more than it had
CallWrap ==
    /\ ~call.returned
    /\ ~call.err.nil
    /\ \/ /\ ~call.err.typed
          /\ call' = [call EXCEPT !.err = Wrap(PlainErr("other"), <<>>)]
       \/ /\ Len(call.opts) < MaxOptions
          /\ \E o \in {WithStatusCode(StatusPreconditionFailed), WithDetail("detail"),
                       WithCodeBlobUnknown, WithCodeDigestInvalid, WithCodeUnsupported} :
                call' = [call EXCEPT !.opts = Append(@, o),
                                     !.err = Wrap(PlainErr("other"), Append(call.opts, o))]
    /\ UNCHANGED <<fs, issued, resp, reqs, held, received>>

\* the handler returns call.err and Handler.ServeHTTP runs; for an error
\* ServeJSON calls WriteHeader with the status of the envelope
CallReturn ==
    /\ ~call.returned
    /\ LET r == ServeHTTP([fs |-> fs, w |-> call.w, err |-> call.err])
           e == IF call.err.typed THEN call.err ELSE Wrap(call.err, <<>>)
       IN /\ call' = [call EXCEPT !.returned = TRUE, !.w = r.resp,
                                  !.codes = IF call.err.nil THEN @
                                            ELSE Append(@, e.status)]
          /\ resp' = Outcome(r.resp)
    /\ UNCHANGED <<fs, issued, reqs, held, received>>

HandlerNext ==
    \/ CallSetHeader
    \/ CallWriteHeader
    \/ CallWrite
    \/ CallFail
    \/ CallWrap
    \/ CallReturn

HandlerSpec == Init /\ [][HandlerNext]_vars

-----------------------------------------------------------------------------
(* Whole uploads to the sessions, their finalize PUTs and the reads of the  *)
(* blobs, any two in progress at once.                                      *)

FinalizeNext ==
    \E p \in UploadProcs :
        \/ RecvPushBlobPatch(p, SessionIds, {<<NoRange, TRUE>>},
                             {Whole(Pad(MaxPad)), Whole(GzipMagic)}, FALSE)
        \/ LayerCreate(p)
        \/ LayerCopy(p)
        \/ RecvPushBlobPut(p, SessionIds, Digests, {FALSE}, {<<>>}, FALSE)
        \/ ReadDirOpen(p)
        \/ ReadDirNames(p)
        \/ ReadDirLstat(p)
        \/ FinPickup(p)
        \/ FinRename(p)
        \/ FinRemove(p)
        \/ RecvPushBlobHead(p, Digests)
        \/ HeadReadDir(p)
        \/ RecvPullingBlobs(p, Digests)
        \/ GetReadDir(p)
        \/ GetOpen(p)
        \/ GetRead(p)
        \/ DoDeterminingSupport(p)

FinalizeSpec == Init /\ [][FinalizeNext]_vars

-----------------------------------------------------------------------------
(* Clients that each send one PATCH with Content-Range to a session and a   *)
(* client that sends the finalize PUT of the session, in progress at once,  *)
(* with the whole uploads that create the session.                          *)

\* the requests in progress at once here: two PATCHes and the PUT
PatchProcs == 1..(NumUploadProcs + 1)

ConcurrentPatchNext ==
    \E p \in PatchProcs :
        \/ RecvPushBlobPatch(p, {"uuid-1"}, {<<NoRange, TRUE>>}, {Whole(Pad(MaxPad))}, FALSE)
        \/ RecvPushBlobPatch(p, {"uuid-1"},
                             {<<cr, TRUE>> : cr \in {c \in Ranges : ~c.bytesPrefix /\ c.start <= c.end}},
                             {Whole(Pad(MaxPad))}, TRUE)
        \/ ReadDirOpen(p)
        \/ ReadDirNames(p)
        \/ ReadDirLstat(p)
        \/ PatchReadDir(p)
        \/ PatchMkdir(p)
        \/ LayerCreate(p)
        \/ LayerCopy(p)
        \/ RecvPushBlobPut(p, {"uuid-1"}, {Sha256(Pad(MaxPad))}, {FALSE}, {<<>>}, TRUE)
        \/ FinPickup(p)
        \/ FinRename(p)
        \/ FinRemove(p)

ConcurrentPatchSpec == Started(PatchProcs) /\ [][ConcurrentPatchNext]_vars

-----------------------------------------------------------------------------
(* Whole uploads of streams of every length around the sniff buffer's.      *)

\* request bodies that are empty, shorter than the sniff buffer, as long, and
\* longer, in one read or with their first bytes ahead
LayerStreams ==
    UNION {Streams(b) : b \in {Pad(n) : n \in 0..(SniffSize + 1)}
                              \cup {GzipMagic \o Pad(n) : n \in 0..(MaxPad + 1)}}

LayerNext ==
    \E p \in UploadProcs :
        \/ RecvPushBlobPatch(p, SessionIds, {<<NoRange, TRUE>>}, LayerStreams, FALSE)
        \/ LayerCreate(p)
        \/ LayerCopy(p)

LayerSpec == Init /\ [][LayerNext]_vars

-----------------------------------------------------------------------------
(* Helpers of the properties. *)

\* most chunks of one chunked upload
MaxChunks == 2

\* the size of the file of a session or blob directory, 0 when there is none
CurrentSize(f, ref) ==
    LET fi == PickupFileinfo(f, ref) IN IF fi.err.nil THEN fi.size ELSE 0

\* n PATCH requests on sessionID, each carrying chunk, with Content-Range
\* offset-(offset+k-1), (offset+k)-(offset+2k-1), ... and Content-Length k
RECURSIVE RangeUpload(_, _, _, _, _)
RangeUpload(f, sessionID, chunk, n, offset) ==
    IF n = 0 THEN [fs |-> f, accepted |-> TRUE]
    ELSE LET k == Len(Bytes(chunk))
             r == PushBlobPatch(f, sessionID, RangeOf(offset, offset + k - 1), TRUE, chunk)
             rest == RangeUpload(r.fs, sessionID, chunk, n - 1, offset + k)
         IN [fs |-> rest.fs,
             accepted |-> r.resp.status = StatusAccepted /\ rest.accepted]

\* POST issuing sessionID, PATCH of the whole body X, finalize PUT at digest D
SessionedPush(f, sessionID, X, D) ==
    LET post == PushBlobPost(f, FALSE, "", <<>>, sessionID)
        patch == PushBlobPatch(post.fs, sessionID, NoRange, TRUE, X)
        put == PushBlobPut(patch.fs, sessionID, D, FALSE, <<>>)
    IN [fs |-> put.fs,
        ok |-> /\ post.resp.status = StatusAccepted
               /\ patch.resp.status = StatusAccepted
               /\ put.resp.status = StatusCreated]

\* the blob of an image pushed in one monolithic POST, then its manifest PUT
\* at tag
MonolithicImagePush(f, X, D, tag, body) ==
    LET post == PushBlobPost(f, TRUE, D, X, "")
        put == PushManifestPut(post.fs, tag, body)
    IN [fs |-> put.fs,
        ok |-> post.resp.status = StatusCreated /\ put.resp.status = StatusCreated]

\* the blob of an image pushed through session sessionID, then its manifest
\* PUT at tag
ImagePush(f, sessionID, X, D, tag, body) ==
    LET blob == SessionedPush(f, sessionID, X, D)
        put == PushManifestPut(blob.fs, tag, body)
    IN [fs |-> put.fs, ok |-> blob.ok /\ put.resp.status = StatusCreated]

\* the PATCH and PUT requests a client sends on a session
SessionRequests ==
    {[method |-> "PATCH", h |-> h, dq |-> "", octet |-> FALSE, body |-> body] :
        h \in PatchHeaders, body \in Bodies}
    \cup {[method |-> "PUT", h |-> <<NoRange, FALSE>>, dq |-> dq, octet |-> octet,
           body |-> body] :
        dq \in DigestInputs, octet \in BOOLEAN, body \in Bodies}

\* those of them that write when the session allows: a whole upload by PATCH,
\* a PUT with a digest that parses
SessionWrites ==
    {q \in SessionRequests :
        IF q.method = "PATCH" THEN q.h = <<NoRange, TRUE>>
        ELSE q.dq \in Digests /\ (q.octet \/ q.body = <<>>)}

\* request q served on session sessionID
SessionRequest(f, sessionID, q) ==
    IF q.method = "PATCH" THEN PushBlobPatch(f, sessionID, q.h[1], q.h[2], q.body)
    ELSE PushBlobPut(f, sessionID, q.dq, q.octet, q.body)

\* the tree without its session directories
WithoutSessions(f) == [ref \in DOMAIN f \ SessionIds |-> f[ref]]

\* the value the last option of opts that assigns field gives it, default when
\* none does
RECURSIVE LastSet(_, _, _)
LastSet(opts, field, default) ==
    IF opts = <<>> THEN default
    ELSE IF field \in opts[Len(opts)].sets THEN opts[Len(opts)][field]
    ELSE LastSet(SubSeq(opts, 1, Len(opts) - 1), field, default)

\* the bytes of the chunks of the PATCH requests answered 202 on sessionID,
\* among the requests of the slots 1..n: the length of a chunk is that of its
\* Content-Range
RECURSIVE AcceptedBytes(_, _)
AcceptedBytes(n, sessionID) ==
    IF n = 0 THEN 0
    ELSE AcceptedBytes(n - 1, sessionID)
         + (IF reqs[n].op = "PushBlobPatch" /\ reqs[n].ref = sessionID
                /\ reqs[n].status = StatusAccepted
            THEN reqs[n].cr.end - reqs[n].cr.start + 1 ELSE 0)

\* request bodies that do not decode into a manifest
InvalidManifestBodies ==
    {b \in ManifestBodies \cup Bodies \cup {Whole(<<Brace, 1>>)} : ~Decode(Bytes(b)).ok}

\* the tags GET /v2/N/tags/list returns, none when it fails
Listed(f) == IF ListTags(f).resp.status = StatusOK THEN ListTags(f).resp.listTags ELSE {}

\* the upload requests, on every reference the router passes to them, a
\* session id, a digest, the word tags or a path below it: each gives the
\* tree afterwards
WritesFrom(f) ==
    {PushBlobPost(f, TRUE, dq, body, "").fs : dq \in DigestInputs, body \in Bodies}
    \cup {PushBlobPatch(f, ref, h[1], h[2], body).fs :
            ref \in References \cup TagStoreReferences, h \in PatchHeaders, body \in Bodies}
    \cup {PushBlobPut(f, ref, dq, TRUE, body).fs :
            ref \in References \cup TagStoreReferences, dq \in DigestInputs, body \in Bodies}
    \cup {PushBlobPut(f, ref, dq, FALSE, <<>>).fs :
            ref \in References \cup TagStoreReferences, dq \in DigestInputs}

-----------------------------------------------------------------------------
(* Properties. *)

\* C1: a session that does not exist yet and receives n chunks of k bytes by
\* PATCH with Content-Range 0-(k-1), k-(2k-1), ... in order, each with
\* Content-Length k, has every PATCH answered 202 and ends with a session
\* file of n*k bytes.
C1_RangeProtocol ==
    \A sessionID \in SessionIds \ (issued \cup DOMAIN fs) :
        \A chunk \in Bodies \ {<<>>}, n \in 1..MaxChunks :
            LET u == RangeUpload(fs, sessionID, chunk, n, 0)
            IN u.accepted /\ CurrentSize(u.fs, sessionID) = n * Len(Bytes(chunk))

\* C2: a PATCH whose Content-Range starts elsewhere than at the current size
\* of the session file (0 when there is none) is answered 416
\* BLOB_UPLOAD_UNKNOWN and leaves the tree as it was.
C2_OffsetMismatch ==
    \A sessionID \in SessionIds, body \in Bodies \ {<<>>}, start \in 0..MaxOffset :
        start # CurrentSize(fs, sessionID) =>
            LET r == PushBlobPatch(fs, sessionID,
                                   RangeOf(start, start + Len(Bytes(body)) - 1), TRUE, body)
            IN /\ r.resp.status = StatusRequestedRangeNotSatisfiable
               /\ r.resp.code = "BLOB_UPLOAD_UNKNOWN"
               /\ r.fs = fs

\* C3: from any state of the store, once POST (issuing a new session S),
\* PATCH of S with body X and PUT of S with digest D have all succeeded,
\* GET of D returns 200 with the bytes X and HEAD reports Content-Length |X|.
C3_PushThenPull ==
    \A sessionID \in SessionIds \ (issued \cup DOMAIN fs), X \in Bodies, D \in Digests :
        LET p == SessionedPush(fs, sessionID, X, D)
            get == PullingBlobs(p.fs, D)
            head == PushBlobHead(p.fs, D)
        IN p.ok =>
            /\ get.resp.status = StatusOK
            /\ get.resp.body = Bytes(X)
            /\ head.resp.contentLength = ToString(Len(Bytes(X)))

\* C4: after a successful finalize PUT of session S the directory B/N/S does
\* not exist, whatever PATCH requests the session received before.
C4_FinalizeRemovesSession ==
    \A sessionID \in SessionIds, D \in Digests :
        LET put == PushBlobPut(fs, sessionID, D, FALSE, <<>>)
        IN put.resp.status = StatusCreated =>
            /\ \E name \in DOMAIN fs[sessionID] :
                   name \in DOMAIN put.fs[D] /\ put.fs[D][name] = fs[sessionID][name]
            /\ sessionID \notin DOMAIN put.fs

\* C5: a digest directory that does not exist is created by no request but a
\* successful finalize or monolithic push to that digest: a finalize PUT
\* that fails leaves no B/N/D behind, and a PATCH puts no data under B/N/D.
C5_DigestDirOnlyAfterPush ==
    \A D \in Digests \ DOMAIN fs :
        /\ \A ref \in References, dq \in DigestInputs :
            LET put == PushBlobPut(fs, ref, dq, FALSE, <<>>)
            IN put.resp.status # StatusCreated => D \notin DOMAIN put.fs
        /\ \A ref \in References, h \in PatchHeaders, body \in Bodies :
            D \notin DOMAIN PushBlobPatch(fs, ref, h[1], h[2], body).fs

\* C6: a finalize PUT for a session that has no uploaded file fails with the
\* error code BLOB_UPLOAD_UNKNOWN.
C6_FinalizeUnknownSession ==
    \A sessionID \in SessionIds \ DOMAIN fs, D \in Digests :
        PushBlobPut(fs, sessionID, D, FALSE, <<>>).resp.code = "BLOB_UPLOAD_UNKNOWN"

\* C7: once GET of D returns a blob, no later push request, sessioned or
\* monolithic, changes the bytes GET of D returns.
C7_BlobImmutable ==
    \A D \in Digests :
        LET before == PullingBlobs(fs, D).resp
        IN before.status = StatusOK =>
            \A g \in WritesFrom(fs) :
                /\ PullingBlobs(g, D).resp.status = StatusOK
                /\ PullingBlobs(g, D).resp.body = before.body

\* C8: for every blob the registry serves, the SHA-256 of the bytes GET
\* returns is the hex part of the digest it is served under.
C8_DigestMatchesContent ==
    \A D \in Digests :
        LET get == PullingBlobs(fs, D).resp
        IN get.status = StatusOK => Sha256(get.body) = D

\* C9: a successful push to a digest whose directory holds at most one file
\* leaves that directory with exactly one file.
C9_OneFilePerBlobDir ==
    \A D \in Digests :
        (D \in DOMAIN fs => Cardinality(DOMAIN fs[D]) = 1) =>
            /\ \A body \in Bodies :
                LET r == PushBlobPost(fs, TRUE, D, body, "")
                IN r.resp.status = StatusCreated => Cardinality(DOMAIN r.fs[D]) = 1
            /\ \A sessionID \in SessionIds :
                LET r == PushBlobPut(fs, sessionID, D, FALSE, <<>>)
                IN r.resp.status = StatusCreated => Cardinality(DOMAIN r.fs[D]) = 1

\* C10: when GET of a digest returns 200, a HEAD of it issued next returns
\* 202 with Content-Length the number of bytes GET returned and
\* Docker-Content-Digest the digest.
C10_HeadAgreesWithGet ==
    \A D \in RoutedDigests :
        LET get == PullingBlobs(fs, D)
            head == PushBlobHead(get.fs, D)
        IN get.resp.status = StatusOK =>
            /\ head.resp.status = StatusAccepted
            /\ head.resp.contentLength = ToString(Len(get.resp.body))
            /\ head.resp.contentDigest = D

\* C10 witness: the last request was answered, and some digest directory
\* holds two files of different sizes, of which GET serves one and HEAD
\* reports on one
C10_Witness ==
    \E D \in Digests :
        /\ D \in DOMAIN fs
        /\ Cardinality(DOMAIN fs[D]) = 2
        /\ \E a, b \in DOMAIN fs[D] : Len(fs[D][a]) # Len(fs[D][b])
        /\ PullingBlobs(fs, D).resp.status = StatusOK
        /\ PushBlobHead(fs, D).resp.status = StatusAccepted
        /\ resp.status = StatusAccepted

-----------------------------------------------------------------------------
(* Properties of the manifest and tag requests. *)

\* C11: when PUT of a manifest at tag T succeeds and reports digest D, GET of
\* T and GET of D both return 200 with the same body, the text of the
\* manifest that was put.
C11_PullByTagAndDigest ==
    \A tag \in Tags, body \in ManifestBodies :
        LET put == PushManifestPut(fs, tag, body)
            byTag == PullingManifests(put.fs, tag).resp
            byDigest == PullingManifests(put.fs, put.resp.contentDigest).resp
        IN put.resp.status = StatusCreated =>
            /\ byTag.status = StatusOK
            /\ byDigest.status = StatusOK
            /\ byTag.body = byDigest.body
            /\ byTag.body = Encode(Decode(DecoderRead(body, <<>>)).m)

\* C11 witness: the last request was answered 201 and a tag holds the digest
\* of a body that is not the text the store keeps, and is pulled
C11_Witness ==
    /\ resp.status = StatusCreated
    /\ \E tag \in Tags, m \in Manifests :
        /\ StatFile(fs, baseTagDir, tag)
        /\ fs[baseTagDir][tag] = DigestText(<<Brace, m, RBrace>>)
        /\ PullingManifests(fs, tag).resp.status = StatusOK
        /\ PullingManifests(fs, tag).resp.body = Encode(m)

\* C12: when PUT of a manifest at tag T succeeded with digest D, the answers
\* to GET of T and GET of D both carry Docker-Content-Digest = D.
C12_PullCarriesDigest ==
    \A tag \in Tags, body \in ManifestBodies :
        LET put == PushManifestPut(fs, tag, body)
            D == put.resp.contentDigest
        IN put.resp.status = StatusCreated =>
            /\ PullingManifests(put.fs, tag).resp.contentDigest = D
            /\ PullingManifests(put.fs, D).resp.contentDigest = D

C14_DeleteTagRemovesManifest ==
    \A tag \in Tags :
        StatFile(fs, baseTagDir, tag) =>
            LET D == StringOf(fs[baseTagDir][tag])
                del == DeleteManifest(fs, tag)
                after == PullingManifests(del.fs, D).resp
            IN del.resp.status = StatusAccepted =>
                /\ ~StatFile(del.fs, baseTagDir, tag)
                /\ after.status = StatusNotFound
                /\ after.code = "MANIFEST_UNKNOWN"

\* C15: DELETE of a tag that does not exist is answered 400 and changes no
\* tag file and no manifest.
C15_DeleteUnknownTag ==
    \A tag \in Tags :
        ~StatFile(fs, baseTagDir, tag) =>
            /\ DeleteManifest(fs, tag).resp.status = StatusBadRequest
            /\ DeleteManifest(fs, tag).fs = fs

\* C15 witness: the last request was answered 400 UNKNOWN, one tag exists and
\* another does not, and a DELETE of that one is answered 400
C15_Witness ==
    /\ resp.status = StatusBadRequest
    /\ resp.code = "UNKNOWN"
    /\ \E tag \in Tags, other \in Tags :
        /\ StatFile(fs, baseTagDir, other)
        /\ ~StatFile(fs, baseTagDir, tag)
        /\ DeleteManifest(fs, tag).resp.status = StatusBadRequest

\* C17: the tag list is the set of tags put and not deleted since: a
\* successful manifest PUT of T adds T to it and nothing else, a successful
\* DELETE of T takes T out and nothing else, no upload request changes it,
\* and a list that is returned names the repository.
C17_TagListIsPutMinusDeleted ==
    /\ \A tag \in Tags, body \in ManifestBodies :
        LET put == PushManifestPut(fs, tag, body)
        IN put.resp.status = StatusCreated => Listed(put.fs) = Listed(fs) \cup {tag}
    /\ \A tag \in Tags :
        LET del == DeleteManifest(fs, tag)
        IN del.resp.status = StatusAccepted => Listed(del.fs) = Listed(fs) \ {tag}
    /\ \A ref \in References \cup TagStoreReferences, body \in Bodies :
        Listed(PushBlobPatch(fs, ref, NoRange, TRUE, body).fs) = Listed(fs)
    /\ ListTags(fs).resp.status = StatusOK => ListTags(fs).resp.listName = Name

\* C18: GET /v2/N/tags/list of a repository whose tags directory does not
\* exist fails with status 404 and error code NAME_UNKNOWN.
C18_ListTagsUnknownName ==
    ~Stat(fs, baseTagDir) =>
        /\ ListTags(fs).resp.status = StatusNotFound
        /\ ListTags(fs).resp.code = "NAME_UNKNOWN"

\* C19: HEAD of a digest with no stored blob fails with status 404 and error
\* code BLOB_UNKNOWN.
C19_HeadUnknownBlob ==
    \A D \in Digests \ DOMAIN fs :
        /\ PushBlobHead(fs, D).resp.status = StatusNotFound
        /\ PushBlobHead(fs, D).resp.code = "BLOB_UNKNOWN"

\* C20: GET of a digest that has no finalized blob (its directory does not
\* exist, or holds no file) is answered 404 with code BLOB_UNKNOWN and
\* message "blob unknown to registry", and changes nothing on disk.
C20_GetUnknownBlob ==
    \A D \in Digests :
        (D \in DOMAIN fs => DOMAIN fs[D] = {}) =>
            LET get == PullingBlobs(fs, D)
            IN /\ get.resp.status = StatusNotFound
               /\ get.resp.code = "BLOB_UNKNOWN"
               /\ get.resp.message = "blob unknown to registry"
               /\ get.fs = fs

\* C16: manifest PUTs to one tag are last-writer-wins.  Two PUTs one after
\* the other leave the tag file with the digest of the second, GET of the tag
\* returns the second manifest and both manifests are returned by digest;
\* two PUTs in progress at once, when both have completed and no other
\* request was sent, leave the tag file with the digest of one of them, GET of
\* the tag returns that manifest and both manifests are returned by digest.
\* The digest of a PUT is the one its answer reports.
C16_LastWriterWins ==
    /\ \A tag \in Tags, b1 \in ValidManifestBodies, b2 \in ValidManifestBodies :
        LET first == PushManifestPut(fs, tag, b1)
            second == PushManifestPut(first.fs, tag, b2)
            read1 == DecoderRead(b1, <<>>)
            read2 == DecoderRead(b2, <<>>)
        IN (first.resp.status = StatusCreated /\ second.resp.status = StatusCreated) =>
           /\ second.fs[baseTagDir][tag] = DigestText(read2)
           /\ PullingManifests(second.fs, tag).resp.status = StatusOK
           /\ PullingManifests(second.fs, tag).resp.body = Encode(Decode(read2).m)
           /\ \A read \in {read1, read2} :
                /\ PullingManifests(second.fs, Sha256(read)).resp.status = StatusOK
                /\ PullingManifests(second.fs, Sha256(read)).resp.body =
                       Encode(Decode(read).m)
    /\ \A p \in UploadProcs, q \in UploadProcs :
        (/\ p # q
         /\ reqs[p].pc = "done" /\ reqs[q].pc = "done"
         /\ reqs[p].status = StatusCreated /\ reqs[q].status = StatusCreated
         /\ reqs[p].ref = reqs[q].ref
         /\ \A o \in UploadProcs \ {p, q} : reqs[o].pc = "idle") =>
            /\ \E w \in {p, q} :
                /\ StatFile(fs, baseTagDir, reqs[p].ref)
                /\ StringOf(fs[baseTagDir][reqs[p].ref]) = reqs[w].digest
                /\ PullingManifests(fs, reqs[p].ref).resp.status = StatusOK
                /\ PullingManifests(fs, reqs[p].ref).resp.body = Encode(reqs[w].m)
            /\ \A w \in {p, q} :
                /\ PullingManifests(fs, reqs[w].digest).resp.status = StatusOK
                /\ PullingManifests(fs, reqs[w].digest).resp.body = Encode(reqs[w].m)

\* C16 witness: two PUTs of different manifests to one tag, in progress at
\* once, have both completed with 201, and the tag holds the digest of the
\* request of the first slot
C16_Witness ==
    /\ reqs[1].pc = "done" /\ reqs[2].pc = "done"
    /\ reqs[1].status = StatusCreated /\ reqs[2].status = StatusCreated
    /\ reqs[1].ref = reqs[2].ref
    /\ reqs[1].m # reqs[2].m
    /\ StatFile(fs, baseTagDir, reqs[1].ref)
    /\ StringOf(fs[baseTagDir][reqs[1].ref]) = reqs[1].digest
    /\ resp.status = StatusCreated

-----------------------------------------------------------------------------
(* Properties of blob deletion, the Handler adapter and the upload answers. *)

\* C21: DELETE of a stored blob D is answered 202 and removes B/N/D only: GET
\* of D is then answered 404 BLOB_UNKNOWN and every other directory (blob,
\* session, tags) is as it was, file by file; DELETE of a D that is not stored
\* is answered 404 BLOB_UNKNOWN and leaves the tree as it was.  Tried on the
\* tree as it is and on that tree after a manifest PUT, which has tag files.
C21_DeleteBlobFrame ==
    \A tag \in Tags :
        \A f \in {fs, PushManifestPut(fs, tag, Whole(Encode(1))).fs} :
            \A D \in RoutedDigests \cup ManifestDigests :
                LET r == DeleteBlob(f, D)
                    get == PullingBlobs(r.fs, D)
                IN IF D \in DOMAIN f
                   THEN /\ r.resp.status = StatusAccepted
                        /\ DOMAIN r.fs = DOMAIN f \ {D}
                        /\ \A ref \in DOMAIN f \ {D} : r.fs[ref] = f[ref]
                        /\ get.resp.status = StatusNotFound
                        /\ get.resp.code = "BLOB_UNKNOWN"
                   ELSE /\ r.resp.status = StatusNotFound
                        /\ r.resp.code = "BLOB_UNKNOWN"
                        /\ r.fs = f

C21_Witness ==
    /\ resp.status = StatusAccepted
    /\ \E D, E \in Digests, S \in SessionIds :
        /\ D \notin DOMAIN fs
        /\ E \in DOMAIN fs /\ DOMAIN fs[E] # {}
        /\ S \in DOMAIN fs /\ DOMAIN fs[S] # {}
        /\ DeleteBlob(fs, E).resp.status = StatusAccepted
        /\ DeleteBlob(fs, D).resp.code = "BLOB_UNKNOWN"

\* C22, as the specification states it: when the handler returns to the
\* Handler adapter, with nil the adapter writes nothing; with a typed error
\* the response has the status code of the error and the envelope its code
\* and message; with any other error the response has status 500 and the
\* envelope the code UNKNOWN and the message "unknown error".
C22_AsStated ==
    [][(~call.returned /\ call'.returned) =>
          LET e == call.err
              w == call'.w
          IN /\ e.nil => w = call.w
             /\ (~e.nil /\ e.typed) =>
                    /\ WireStatus(w) = e.status
                    /\ w.code = e.code /\ w.message = e.message
             /\ (~e.nil /\ ~e.typed) =>
                    /\ WireStatus(w) = StatusInternalServerError
                    /\ w.code = "UNKNOWN" /\ w.message = "unknown error"
      ]_vars

\* C22: when the handler returns to the Handler adapter: with nil the adapter
\* leaves the response as the handler left it, which is status 200 and an
\* empty body when the handler wrote nothing; with an error it adds the
\* envelope to what the handler wrote, with the code, message and detail of a
\* typed error, and the code UNKNOWN and the message "unknown error" for any
\* other error.  The response has the status code of the error (500 for an
\* error that is not typed) when the handler had sent no header before it
\* returned, neither by WriteHeader nor by writing bytes of the body; when it
\* had, the status the client receives stays the one sent, that of the
\* handler's first WriteHeader, or 200 when it wrote bytes of the body first.
\* The status the wrapper records is that of the first WriteHeader call, the
\* adapter's when the handler made none.
C22_HandlerAdapter ==
    [][(~call.returned /\ call'.returned) =>
          LET e == call.err
              w == call'.w
              sent == call.w.wire # 0
              status == IF e.typed THEN e.status ELSE StatusInternalServerError
          IN /\ e.nil => w = call.w
             /\ (e.nil /\ ~sent) => WireStatus(w) = StatusOK /\ w.body = <<>>
             /\ ~e.nil =>
                    /\ w.code = IF e.typed THEN e.code ELSE "UNKNOWN"
                    /\ w.message = IF e.typed THEN e.message ELSE "unknown error"
                    /\ w.detail = e.detail
                    /\ w.body = call.w.body
                    /\ WireStatus(w) = IF sent THEN call.w.wire ELSE status
                    /\ w.status = IF call.codes = <<>> THEN status ELSE call.codes[1]
                    /\ ~sent => w.contentType = "application/json; charset=utf-8"
      ]_vars

C22_Witness ==
    /\ call.returned
    /\ call.err.typed
    /\ call.err.code = "BLOB_UNKNOWN"
    /\ call.w.code = "BLOB_UNKNOWN"
    /\ call.w.message = "blob unknown to registry"
    /\ call.w.body # <<>>
    /\ call.w.wire = StatusOK
    /\ call.w.status = StatusNotFound
    /\ call.codes = <<StatusNotFound>>

\* C23: the error Wrap returns has, for each of status, code, message and
\* detail, the value given by the last of its options that assigns it, and
\* 500, UNKNOWN, "unknown error", no detail when none does; so WithStatusCode
\* after a WithCode* option keeps the code with the given status, and
\* WithStatusCode before it gives way to the status of the code.
C23_WrapLastOptionWins ==
    call.err.typed =>
        /\ call.err = Wrap(PlainErr("other"), call.opts)
        /\ call.err.status = LastSet(call.opts, "status", StatusInternalServerError)
        /\ call.err.code = LastSet(call.opts, "code", "UNKNOWN")
        /\ call.err.message = LastSet(call.opts, "message", "unknown error")
        /\ call.err.detail = LastSet(call.opts, "detail", "")
        /\ \A i \in 1..(Len(call.opts) - 1) :
            /\ (call.opts[i].sets = {"status"} /\ "code" \in call.opts[i + 1].sets
                    /\ i + 1 = Len(call.opts))
                => /\ call.err.status = call.opts[i + 1].status
                   /\ call.err.code = call.opts[i + 1].code
            /\ ("code" \in call.opts[i].sets /\ call.opts[i + 1].sets = {"status"}
                    /\ i + 1 = Len(call.opts))
                => /\ call.err.status = call.opts[i + 1].status
                   /\ call.err.code = call.opts[i].code

C23_Witness ==
    /\ call.opts = <<WithStatusCode(StatusPreconditionFailed), WithCodeBlobUnknown>>
    /\ call.err.status = StatusNotFound
    /\ call.err.code = "BLOB_UNKNOWN"

\* C24: whatever WriteHeader calls a Response wrapper has received, the status
\* it records and the one status passed on to the wrapped writer are those of
\* the first call, and no later call reaches the wrapped writer.
C24_WriteHeaderLatch ==
    IF call.codes = <<>>
    THEN ~call.w.committed /\ call.w.forwarded = <<>>
    ELSE /\ call.w.committed
         /\ call.w.status = call.codes[1]
         /\ call.w.forwarded = <<call.codes[1]>>

C24_Witness ==
    /\ Len(call.codes) >= 2
    /\ call.codes[2] # call.codes[1]
    /\ ~call.returned
    /\ call.w.status = call.codes[1]

\* C25: the response of every request that went through the server's handler
\* chain, with or without an error, carries Docker-Distribution-Api-Version:
\* registry/2.0 and X-Content-Type-Options: nosniff.
C25_RequiredHeaders ==
    call.returned => call.w.apiVersion = "registry/2.0" /\ call.w.noSniff = "nosniff"

C25_Witness ==
    /\ call.returned
    /\ ~call.err.nil
    /\ call.w.code = "UNSUPPORTED"
    /\ call.w.status = StatusMethodNotAllowed
    /\ call.w.noSniff = "nosniff"

\* C26: POST /v2/N/blobs/uploads/ without Content-Type octet-stream issues a
\* session S, answers 202 with Location /v2/N/blobs/uploads/S and writes
\* nothing; with octet-stream and a digest D that parses it stores the body
\* under B/N/D, touching no other directory, and answers 201 with Location
\* /v2/N/blobs/D; with octet-stream and a missing or malformed digest it
\* answers 400 DIGEST_INVALID and writes nothing.
C26_PostModes ==
    /\ \A sessionID \in SessionIds \ issued, dq \in DigestInputs, body \in Bodies :
        LET r == PushBlobPost(fs, FALSE, dq, body, sessionID)
        IN /\ r.resp.status = StatusAccepted
           /\ r.resp.location = "/v2/" \o Name \o "/blobs/uploads/" \o sessionID
           /\ r.fs = fs
    /\ \A dq \in DigestInputs, body \in Bodies :
        LET r == PushBlobPost(fs, TRUE, dq, body, "")
        IN IF dq \in Digests
           THEN /\ r.resp.status = StatusCreated
                /\ r.resp.location = "/v2/" \o Name \o "/blobs/" \o dq
                /\ dq \in DOMAIN r.fs
                /\ \E name \in DOMAIN r.fs[dq] : r.fs[dq][name] = Bytes(body)
                /\ DOMAIN r.fs = DOMAIN fs \cup {dq}
                /\ \A ref \in DOMAIN fs \ {dq} : r.fs[ref] = fs[ref]
           ELSE /\ r.resp.status = StatusBadRequest
                /\ r.resp.code = "DIGEST_INVALID"
                /\ r.fs = fs

C26_Witness ==
    /\ resp.status = StatusCreated
    /\ issued # {}
    /\ \E D \in Digests :
        /\ D \in DOMAIN fs
        /\ "layer.tar.gz" \in DOMAIN fs[D]
        /\ PushBlobPost(fs, TRUE, "", <<>>, "").resp.code = "DIGEST_INVALID"
        /\ PushBlobPost(fs, TRUE, D, <<>>, "").resp.status = StatusCreated

\* C27: a PUT /v2/N/blobs/uploads/S?digest=D that succeeds is answered 201
\* with Location /v2/N/blobs/D, whether it carries the blob (octet-stream) or
\* finalizes the session by rename.
C27_PutLocation ==
    \A ref \in References, D \in Digests, octet \in BOOLEAN :
        \A body \in IF octet THEN Bodies ELSE {<<>>} :
            LET r == PushBlobPut(fs, ref, D, octet, body)
            IN r.resp.status \in 200..299 =>
                /\ r.resp.status = StatusCreated
                /\ r.resp.location = "/v2/" \o Name \o "/blobs/" \o D

\* C28: a PATCH answered 202, with or without Content-Range, carries Location
\* /v2/N/blobs/uploads/S, Docker-Upload-UUID S, Range 0-<size of the session
\* file it wrote> and Accept-Ranges: bytes.
C28_PatchHeaders ==
    \A sessionID \in SessionIds, h \in PatchHeaders, body \in Bodies :
        LET r == PushBlobPatch(fs, sessionID, h[1], h[2], body)
        IN r.resp.status = StatusAccepted =>
            /\ r.resp.location = "/v2/" \o Name \o "/blobs/uploads/" \o sessionID
            /\ r.resp.uploadUUID = sessionID
            /\ r.resp.range =
                   "0-" \o ToString(Len(r.fs[sessionID]["layer" \o detectExt(Read(body, SniffSize).data)]))
            /\ r.resp.acceptRanges = "bytes"

\* C29: pushing an image a second time (the blob, through a new session or in
\* one POST, then the manifest PUT) leaves the tree, session directories
\* aside, as the first push left it: the same directories with the same files
\* and bytes, the same tag files; a digest directory the first push created
\* holds one file after both.  The two pushes send the same bytes, which the
\* connection delivers to the handler as it happens to.
C29_PushTwice ==
    \A X1 \in Bodies, X2 \in Bodies, D \in Digests, tag \in Tags, body \in ValidManifestBodies :
        Bytes(X1) = Bytes(X2) =>
            /\ \A S1, S2 \in SessionIds \ (issued \cup DOMAIN fs) :
                S1 # S2 =>
                    LET once == ImagePush(fs, S1, X1, D, tag, body)
                        twice == ImagePush(once.fs, S2, X2, D, tag, body)
                    IN once.ok =>
                        /\ twice.ok
                        /\ WithoutSessions(twice.fs) = WithoutSessions(once.fs)
                        /\ D \notin DOMAIN fs => Cardinality(DOMAIN twice.fs[D]) = 1
            /\ LET once == MonolithicImagePush(fs, X1, D, tag, body)
                   twice == MonolithicImagePush(once.fs, X2, D, tag, body)
               IN once.ok =>
                   /\ twice.ok
                   /\ twice.fs = once.fs
                   /\ D \notin DOMAIN fs => Cardinality(DOMAIN twice.fs[D]) = 1

\* C30: a PATCH or PUT on session S1 leaves the directory of every other
\* session S2 as it was, existence and bytes; the finalize PUT of S2 gives the
\* same answer and moves the same file with the same bytes whether or not a
\* request on S1 came first, and a new session S2 that received X has X
\* finalized even with a request on S1 in between.
C30_SessionsIsolated ==
    \A S1, S2 \in SessionIds :
        S1 # S2 =>
            /\ \A q \in SessionRequests :
                LET on1 == SessionRequest(fs, S1, q).fs
                IN /\ (S2 \in DOMAIN on1) = (S2 \in DOMAIN fs)
                   /\ S2 \in DOMAIN fs => on1[S2] = fs[S2]
            /\ \A q \in SessionWrites, D \in Digests :
                LET alone == PushBlobPut(fs, S2, D, FALSE, <<>>)
                    after == PushBlobPut(SessionRequest(fs, S1, q).fs, S2, D, FALSE, <<>>)
                IN /\ after.resp.status = alone.resp.status
                   /\ after.resp.status = StatusCreated =>
                        LET name == FirstEntry(Entries(fs, S2))
                        IN /\ after.fs[D][name] = fs[S2][name]
                           /\ alone.fs[D][name] = fs[S2][name]
            /\ S2 \notin DOMAIN fs =>
                \A q \in SessionWrites, X \in Bodies, D \in Digests :
                    LET patch == PushBlobPatch(fs, S2, NoRange, TRUE, X)
                        between == SessionRequest(patch.fs, S1, q)
                        put == PushBlobPut(between.fs, S2, D, FALSE, <<>>)
                    IN /\ patch.resp.status = StatusAccepted
                       /\ put.resp.status = StatusCreated
                       /\ put.fs[D]["layer" \o detectExt(Read(X, SniffSize).data)] = Bytes(X)

C30_Witness ==
    /\ SessionIds \subseteq DOMAIN fs
    /\ \E S1, S2 \in SessionIds :
        /\ S1 # S2
        /\ DOMAIN fs[S1] # {} /\ DOMAIN fs[S2] # {}
        /\ fs[S1] # fs[S2]
        /\ PushBlobPut(fs, S1, CHOOSE D \in Digests : TRUE, FALSE, <<>>).resp.status
               = StatusCreated

-----------------------------------------------------------------------------
(* Properties of requests in progress at once, of the namespaces and of     *)
(* the content stored.                                                      *)

\* C31: while a finalize PUT of a session into digest D is in progress, GET
\* of D is answered 404 BLOB_UNKNOWN or 200 with a whole uploaded body, and
\* HEAD of D 404 or 202: no state in between is seen.
C31_FinalizeAtomic ==
    \A p \in UploadProcs :
        (reqs[p].op = "PushBlobPut"
            /\ reqs[p].pc \in {"rdOpen", "rdNames", "rdStat", "picked", "rename", "remove"}) =>
            LET get == PullingBlobs(fs, reqs[p].digest)
                head == PushBlobHead(fs, reqs[p].digest)
            IN /\ \/ get.resp.status = StatusNotFound /\ get.resp.code = "BLOB_UNKNOWN"
                  \/ get.resp.status = StatusOK /\ \E b \in Bodies : get.resp.body = Bytes(b)
               /\ head.resp.status \in {StatusNotFound, StatusAccepted}

\* C32: once the requests that ran at once are all answered, no two PATCH
\* requests with Content-Range answered 202 on one session have the same start
\* offset, and the file of a session with such a request is as long as the
\* chunks of those requests together.
C32_OffsetCheck ==
    (\A p \in DOMAIN reqs : reqs[p].pc = "done") =>
        /\ \A p, q \in DOMAIN reqs :
            (/\ p # q
             /\ reqs[p].op = "PushBlobPatch" /\ reqs[q].op = "PushBlobPatch"
             /\ reqs[p].status = StatusAccepted /\ reqs[q].status = StatusAccepted
             /\ reqs[p].ref = reqs[q].ref)
            => reqs[p].cr.start # reqs[q].cr.start
        /\ \A sessionID \in SessionIds :
            AcceptedBytes(Cardinality(DOMAIN reqs), sessionID) > 0 =>
                CurrentSize(fs, sessionID)
                    = AcceptedBytes(Cardinality(DOMAIN reqs), sessionID)

\* C33: PUT /v2/N/manifests/T with a body that does not decode into a manifest
\* is answered 400 MANIFEST_INVALID and leaves the tree as it was: no tag file
\* created or overwritten, no digest directory created.
C33_InvalidManifestWritesNothing ==
    \A tag \in Tags, body \in InvalidManifestBodies :
        LET r == PushManifestPut(fs, tag, body)
        IN /\ r.resp.status = StatusBadRequest
           /\ r.resp.code = "MANIFEST_INVALID"
           /\ r.fs = fs

C33_Witness ==
    /\ resp.status = StatusBadRequest
    /\ resp.code = "MANIFEST_INVALID"
    /\ \E tag \in Tags :
        /\ StatFile(fs, baseTagDir, tag)
        /\ PushManifestPut(fs, tag, Whole(Pad(1))).resp.code = "MANIFEST_INVALID"

\* C34: in every state each tag file B/N/tags/T holds a digest D and
\* B/N/D/manifest.json exists, so GET of the tag is answered 200.
C34_TagFilePointsToManifest ==
    \A tag \in Tags :
        StatFile(fs, baseTagDir, tag) =>
            /\ StringOf(fs[baseTagDir][tag]) \in ManifestDigests
            /\ StatFile(fs, StringOf(fs[baseTagDir][tag]), "manifest.json")
            /\ PullingManifests(fs, tag).resp.status = StatusOK

\* C35: no PATCH, whatever reference the router accepts in the session
\* position, creates or changes anything under a digest directory B/N/D or
\* under B/N/tags.
C35_PatchKeepsToSessions ==
    \A ref \in References \cup TagStoreReferences, h \in PatchHeaders, body \in Bodies :
        LET r == PushBlobPatch(fs, ref, h[1], h[2], body)
        IN \A d \in Digests \cup {baseTagDir} :
            /\ (d \in DOMAIN r.fs) = (d \in DOMAIN fs)
            /\ d \in DOMAIN fs => r.fs[d] = fs[d]

\* C36: after a PATCH without Content-Range or without Content-Length that is
\* answered 202 the session directory holds exactly one file, whose bytes are
\* the request body, whatever the session held before; a finalize PUT that
\* follows stores that body.
C36_FullReplace ==
    \A sessionID \in SessionIds, body \in Bodies :
        \A h \in {<<NoRange, TRUE>>, <<NoRange, FALSE>>, <<RangeOf(0, 0), FALSE>>} :
            LET r == PushBlobPatch(fs, sessionID, h[1], h[2], body)
            IN r.resp.status = StatusAccepted =>
                /\ Cardinality(DOMAIN r.fs[sessionID]) = 1
                /\ \A name \in DOMAIN r.fs[sessionID] : r.fs[sessionID][name] = Bytes(body)
                /\ \A D \in Digests :
                    LET put == PushBlobPut(r.fs, sessionID, D, FALSE, <<>>)
                    IN put.resp.status = StatusCreated =>
                        \E name \in DOMAIN r.fs[sessionID] :
                            /\ StatFile(put.fs, D, name)
                            /\ put.fs[D][name] = Bytes(body)

\* C37: for the digest D a successful manifest PUT reports, the bytes GET of
\* /v2/N/manifests/D serves hash to D, and D is the SHA-256 of the request
\* body.
C37_ManifestContentAddressed ==
    \A tag \in Tags, body \in ValidManifestBodies :
        LET put == PushManifestPut(fs, tag, body)
            D == put.resp.contentDigest
            get == PullingManifests(put.fs, D)
        IN put.resp.status = StatusCreated =>
            /\ D = Sha256(Bytes(body))
            /\ get.resp.status = StatusOK
            /\ Sha256(get.resp.body) = D

\* C38: a PATCH whose Content-Range carries the "bytes " prefix is answered as
\* the same PATCH without the prefix, and leaves the same tree.
C38_BytesPrefix ==
    \A sessionID \in SessionIds, body \in Bodies :
        \A cr \in {c \in Ranges : ~c.bytesPrefix /\ c.start <= c.end} :
            LET plain == PushBlobPatch(fs, sessionID, cr, TRUE, body)
                prefixed == PushBlobPatch(fs, sessionID,
                                          [cr EXCEPT !.bytesPrefix = TRUE], TRUE, body)
            IN /\ prefixed.resp.status = plain.resp.status
               /\ prefixed.resp.code = plain.resp.code
               /\ prefixed.fs = plain.fs

\* C39: the status a Response wrapper records is 0 from newResponse until the
\* first WriteHeader call.
C39_NewResponseStatus ==
    /\ NewResponse.status = 0
    /\ call.codes = <<>> => call.w.status = 0

\* C40: CreateLayer writes the whole stream, the bytes read for sniffing
\* first, to one file layer.json or layer.tar.gz of the directory and returns
\* the number of bytes of the stream, for a stream that is empty, shorter
\* than the sniff buffer, as long or longer; nothing else changes.
C40_CreateLayerWritesAll ==
    \A stream \in LayerStreams, ref \in SessionIds :
        LET g == MkdirAll(fs, ref)
            r == CreateLayer(g, stream, ref)
        IN /\ r.err.nil
           /\ r.size = Len(Bytes(stream))
           /\ \E name \in {"layer.json", "layer.tar.gz"} :
                /\ DOMAIN r.fs[ref] = DOMAIN g[ref] \cup {name}
                /\ r.fs[ref][name] = Bytes(stream)
                /\ \A other \in DOMAIN g[ref] \ {name} : r.fs[ref][other] = g[ref][other]
           /\ DOMAIN r.fs = DOMAIN g
           /\ \A dir \in DOMAIN g \ {ref} : r.fs[dir] = g[dir]

C40_Witness ==
    \E S1, S2 \in SessionIds :
        /\ S1 # S2
        /\ StatFile(fs, S1, "layer.json") /\ Len(fs[S1]["layer.json"]) > SniffSize
        /\ StatFile(fs, S1, "layer.tar.gz") /\ Len(fs[S1]["layer.tar.gz"]) > SniffSize
        /\ StatFile(fs, S2, "layer.json") /\ fs[S2]["layer.json"] = <<>>
        /\ CreateLayer(fs, Whole(Pad(1)), S2).size = 1

====
